---- MODULE Spec2Model ----
(***************************************************************************)
(* Dialogue playback engine of dialogue-story (DialogueProvider).           *)
(*                                                                          *)
(* The provider is a React function component.  One action of this module   *)
(* is one event of the browser's event loop (a host call of dialogue(), a   *)
(* window click, a keydown, a click on the skip button, a typing-interval   *)
(* tick, the fade timeout, an animation frame) together with the React      *)
(* render and the effects that the event's state updates cause.  Handlers   *)
(* read the values of the render they were created in (the unprimed         *)
(* variables), state updates are applied in the order they were queued,     *)
(* and refs (typingTimer, resolvePromise, bgFadeTimeout) change at once.    *)
(*                                                                          *)
(* Environment: the host passes leftCharacters / rightCharacters arrays     *)
(* whose identity is stable across renders, and the provider props do not   *)
(* change during a behaviour.                                               *)
(***************************************************************************)
EXTENDS Integers, Sequences, FiniteSets, TLC

VARIABLES
  activeMessages,   \* InternalMessage[] | null   (<<>> stands for null: dialogue() never stores an empty array)
  index,            \* position in activeMessages
  display,          \* text revealed so far
  typing,           \* typing animation running
  isActive,         \* flag exposed to the host
  currentMessage,   \* InternalMessage | null
  pinned,           \* PinnedMap: left / right / top
  typingTimer,      \* ref: the live interval (its closure: full, pos, interval) or NULL
  liveTimers,       \* number of intervals set by setInterval and not cleared
  resolvePromise,   \* ref: id of the promise whose resolver is stored, 0 = null
  currentBg, currentBgFilter, prevBg, prevBgFilter, prevVisible,
  bgFadeTimeout,    \* ref: TRUE when a fade timeout is pending
  liveFades,        \* number of timeouts set by setTimeout, neither cleared nor fired
  rafPending,       \* a requestAnimationFrame callback is pending
  leftChars, rightChars,                  \* character directory
  providerBgImage, providerBgFilter,      \* props
  activeRedo,                             \* prop
  run,              \* history: id of the dialogue() call that loaded activeMessages, 0 = none
  nPlays,           \* history: number of dialogue() calls with a non-empty script
  resolveCalls,     \* history: promise id -> number of times its resolver was called
  resolvedAt,       \* history: promise id -> run that was finishing when it was resolved (-1: not yet)
  onFinishedCount,  \* history: number of onFinished invocations
  runsEnded,        \* history: number of runs ended by completion or skip
  replaced,         \* history: the runs that a dialogue() call replaced while they were active
  ev,               \* history: the last event and what it did
  lookup,           \* last directory lookup (SpecDir)
  sides,            \* last side resolution at the three places that resolve a side (SpecSide)
  hook,             \* last call of useDialogue / useDialogueContext by a component (SpecHook)
  pointer,          \* where the click of the last event was, in a window how wide (SpecClick)
  charectersPath,   \* prop: base path of the characters manifest, UNDEF when not given
  manifestServer,   \* environment: what fetch of index.json (1) and manifest.json (2) gives
  loader            \* manifest loader: loaderInFlight, the pending tryLoad, runtime lists, warnings

vars == << activeMessages, index, display, typing, isActive, currentMessage,
           pinned, typingTimer, liveTimers, resolvePromise, currentBg, currentBgFilter,
           prevBg, prevBgFilter, prevVisible, bgFadeTimeout, liveFades, rafPending,
           leftChars, rightChars, providerBgImage, providerBgFilter,
           activeRedo, run, nPlays, resolveCalls, resolvedAt,
           onFinishedCount, runsEnded, replaced, ev, lookup, sides, hook,
           pointer, charectersPath, manifestServer, loader >>

----------------------------------------------------------------------------
(* Bounds *)

MaxPlays == 2        \* dialogue() calls with a non-empty script in one behaviour
MaxIdleFinish == 1   \* onFinished invocations after which an idle ArrowRight is no longer explored
MaxDirLen == 2       \* entries per directory list of SpecDir

----------------------------------------------------------------------------
(* Values *)

NULL == [null |-> TRUE]          \* null / undefined of an object-typed slot
UNDEF == "undefined"             \* undefined of a string-typed field
NULLSTR == "null"                \* null of a string-typed field (bgImage)

Min(a, b) == IF a < b THEN a ELSE b
Max(a, b) == IF a > b THEN a ELSE b

speed == 35

\* A BackgroundFilter is the sequence of its own keys in insertion order
\* together with their values, which is what JSON.stringify serialises.
Filter(keys, fade, blur) == [keys |-> keys, fade |-> fade, blur |-> blur]

DEFAULT_BG_FILTER == Filter(<<"fade", "blur">>, 0, 0)

RECURSIVE StringifyKeys(_, _)
StringifyKeys(f, i) ==
  IF i > Len(f.keys) THEN ""
  ELSE (IF i > 1 THEN "," ELSE "")
       \o f.keys[i] \o ":"
       \o ToString(IF f.keys[i] = "fade" THEN f.fade ELSE f.blur)
       \o StringifyKeys(f, i + 1)

\* JSON.stringify(filter ?? {})
Stringify(f) == IF f = NULL THEN "{}" ELSE "{" \o StringifyKeys(f, 1) \o "}"

----------------------------------------------------------------------------
(* Strings *)

Char(s, i) == SubSeq(s, i, i)

LowerOf ==
  [A |-> "a", B |-> "b", C |-> "c", D |-> "d", E |-> "e", F |-> "f", G |-> "g",
   H |-> "h", I |-> "i", J |-> "j", K |-> "k", L |-> "l", M |-> "m", N |-> "n",
   O |-> "o", P |-> "p", Q |-> "q", R |-> "r", S |-> "s", T |-> "t", U |-> "u",
   V |-> "v", W |-> "w", X |-> "x", Y |-> "y", Z |-> "z"]

UpperLetters == DOMAIN LowerOf

LowerChar(c) == IF c \in UpperLetters THEN LowerOf[c] ELSE c

RECURSIVE toLowerCase(_)
toLowerCase(s) ==
  IF s = "" THEN "" ELSE LowerChar(Char(s, 1)) \o toLowerCase(SubSeq(s, 2, Len(s)))

RECURSIVE trim(_)
trim(s) ==
  IF s = "" THEN ""
  ELSE IF Char(s, 1) = " " THEN trim(SubSeq(s, 2, Len(s)))
  ELSE IF Char(s, Len(s)) = " " THEN trim(SubSeq(s, 1, Len(s) - 1))
  ELSE s

\* position of the first ":" of s at or after i, 0 when there is none
RECURSIVE indexOfColon(_, _)
indexOfColon(s, i) ==
  IF i > Len(s) THEN 0
  ELSE IF Char(s, i) = ":" THEN i
  ELSE indexOfColon(s, i + 1)

\* raw.split(":")
RECURSIVE split(_)
split(s) ==
  LET i == indexOfColon(s, 1)
  IN  IF i = 0 THEN <<s>>
      ELSE <<SubSeq(s, 1, i - 1)>> \o split(SubSeq(s, i + 1, Len(s)))

\* mutation of slice: one character short
sliceOneShort(full, pos) == SubSeq(full, 1, Min(pos, Len(full)) - 1)

\* full.slice(0, pos)
slice(full, pos) == SubSeq(full, 1, Min(pos, Len(full)))

parseCharacterKey(raw) ==
  IF raw = "" THEN [name |-> raw, forcedSide |-> UNDEF]
  ELSE LET raws == split(raw)
           parts == [i \in DOMAIN raws |-> trim(raws[i])]
           base == parts[1]
       IN  IF Len(parts) > 1
           THEN IF toLowerCase(parts[2]) = "right"
                THEN [name |-> base, forcedSide |-> "right"]
                ELSE [name |-> base, forcedSide |-> "left"]
           ELSE [name |-> base, forcedSide |-> UNDEF]

isNarrator(charecter) ==
  LET parsed == parseCharacterKey(charecter)
  IN  parsed.name # "" /\ toLowerCase(parsed.name) = "ravi"

----------------------------------------------------------------------------
(* Character directory *)

Entry(name, mode, src) == [name |-> name, mode |-> mode, src |-> src]

\* !c.mode / if (mode): undefined and the empty string are falsy
Falsy(str) == str = UNDEF \/ str = ""

\* index of the first element of arr that satisfies P, 0 when there is none (Array.prototype.find)
FindIndex(arr, P(_)) ==
  IF \E i \in DOMAIN arr : P(arr[i])
  THEN CHOOSE i \in DOMAIN arr : P(arr[i]) /\ \A j \in 1..(i - 1) : ~P(arr[j])
  ELSE 0

searchIn(arr, name, mode) ==
  LET Exact(c) == c.name = name /\ c.mode = mode
      Dflt(c) == c.name = name /\ (Falsy(c.mode) \/ c.mode = "default")
      ByName(c) == c.name = name
  IN  IF ~Falsy(mode) /\ FindIndex(arr, Exact) # 0 THEN arr[FindIndex(arr, Exact)]
      ELSE IF FindIndex(arr, Dflt) # 0 THEN arr[FindIndex(arr, Dflt)]
      ELSE IF FindIndex(arr, ByName) # 0 THEN arr[FindIndex(arr, ByName)]
      ELSE NULL

\* findCharacterEntryByName of the render whose directory is left, right
findCharacterEntryIn(left, right, name, mode) ==
  LET leftFound == searchIn(left, name, mode)
      rightFound == searchIn(right, name, mode)
  IN  IF leftFound # NULL THEN [entry |-> leftFound, foundOn |-> "left"]
      ELSE IF rightFound # NULL THEN [entry |-> rightFound, foundOn |-> "right"]
      ELSE [entry |-> NULL, foundOn |-> UNDEF]

findCharacterEntryByName(name, mode) == findCharacterEntryIn(leftChars, rightChars, name, mode)

\* startingSide of startTypingMessage: the side whose pin a starting message
\* clears, in the render whose directory is left, right
startingSideIn(left, right, msg) ==
  LET parsed == parseCharacterKey(msg.charecter)
      foundOn == findCharacterEntryIn(left, right, parsed.name, msg.mode).foundOn
  IN  IF msg.forcedSide # UNDEF THEN msg.forcedSide
      ELSE IF parsed.forcedSide # UNDEF THEN parsed.forcedSide
      ELSE IF foundOn # UNDEF THEN foundOn
      ELSE "left"

startingSide(msg) == startingSideIn(leftChars, rightChars, msg)

\* mutation of pinSide: the directory is asked before the key
pinSideDirectoryFirst(msg) ==
  LET parsed == parseCharacterKey(msg.charecter)
      foundOn == findCharacterEntryByName(parsed.name, msg.mode).foundOn
  IN  IF msg.forcedSide # UNDEF THEN msg.forcedSide
      ELSE IF foundOn # UNDEF THEN foundOn
      ELSE IF parsed.forcedSide # UNDEF THEN parsed.forcedSide
      ELSE "left"

\* side of pinIfNeeded: the side on which a message is pinned
pinSide(msg) ==
  LET parsed == parseCharacterKey(msg.charecter)
      foundOn == findCharacterEntryByName(parsed.name, msg.mode).foundOn
  IN  IF msg.forcedSide # UNDEF THEN msg.forcedSide
      ELSE IF parsed.forcedSide # UNDEF THEN parsed.forcedSide
      ELSE IF foundOn # UNDEF THEN foundOn
      ELSE "left"

\* finalSide of resolveCurrentCharacter: the slot in which a message is rendered,
\* (msg.forcedSide ?? parsed.forcedSide) ?? foundOn ?? "left"
resolveSide(msg) ==
  LET parsed == parseCharacterKey(msg.charecter)
      foundOn == findCharacterEntryByName(parsed.name, msg.mode).foundOn
  IN  IF msg.forcedSide # UNDEF THEN msg.forcedSide
      ELSE IF parsed.forcedSide # UNDEF THEN parsed.forcedSide
      ELSE IF foundOn # UNDEF THEN foundOn
      ELSE "left"

----------------------------------------------------------------------------
(* Messages and scripts *)

\* A DialogueMessage.  typeSpeed is <<>> when omitted and <<n>> when given;
\* the fields that only style the bubble (colours, font) are left out.
Message(text, charecter, showTimes, bgImage, filter) ==
  [text |-> text, charecter |-> charecter, forcedSide |-> UNDEF, mode |-> UNDEF,
   typeSpeed |-> <<>>, showTimes |-> showTimes, bgImage |-> bgImage, filter |-> filter]

\* mutation of prepareMessages: a typeSpeed of 0 counts as omitted (|| for ??)
prepareMessagesFalsySpeed(messages) ==
  [i \in DOMAIN messages |->
     [text |-> messages[i].text, charecter |-> messages[i].charecter,
      forcedSide |-> messages[i].forcedSide, mode |-> messages[i].mode,
      typeSpeed |-> messages[i].typeSpeed, showTimes |-> messages[i].showTimes,
      bgImage |-> messages[i].bgImage, filter |-> messages[i].filter,
      resolvedTypeSpeed |-> IF messages[i].typeSpeed = <<>> \/ messages[i].typeSpeed = <<0>>
                            THEN speed
                            ELSE messages[i].typeSpeed[1]]]

prepareMessages(messages) ==
  [i \in DOMAIN messages |->
     [text |-> messages[i].text, charecter |-> messages[i].charecter,
      forcedSide |-> messages[i].forcedSide, mode |-> messages[i].mode,
      typeSpeed |-> messages[i].typeSpeed, showTimes |-> messages[i].showTimes,
      bgImage |-> messages[i].bgImage, filter |-> messages[i].filter,
      resolvedTypeSpeed |-> IF messages[i].typeSpeed = <<>> THEN speed
                            ELSE messages[i].typeSpeed[1]]]

Blur2 == Filter(<<"blur">>, 0, 2)
Fade1 == Filter(<<"fade", "blur">>, 1, 0)

\* The script of the end-to-end scenario.
HiYo == << Message("Hi", "Ali", FALSE, UNDEF, NULL),
           Message("Yo", "Eddy", FALSE, UNDEF, NULL) >>

\* Backgrounds: a.png, then b.png with its own filter, then a message that names no background.
BgScript == << Message("a", "Ali", FALSE, "a.png", NULL),
               Message("b", "Eddy:right", FALSE, "b.png", Blur2),
               [Message("c", "Ali", FALSE, UNDEF, NULL) EXCEPT !.typeSpeed = <<0>>] >>

\* Pins: a left speaker, a right speaker, the narrator, and the left speaker again.
PinScript == << Message("l", "Ali", TRUE, UNDEF, NULL),
                [Message("r", "Eddy", TRUE, UNDEF, NULL) EXCEPT !.mode = "angry"],
                Message("", "Ravi", TRUE, UNDEF, NULL),
                Message("l", "Ali", FALSE, UNDEF, NULL) >>

Scripts == {HiYo, BgScript, PinScript}

\* Narrator: two narrator messages in a row, the second in capitals and with
\* a side suffix, a left speaker, and the narrator again, over a background
\* of its own.
NarratorScript == << Message("n", "Ravi", TRUE, UNDEF, NULL),
                     Message("m", "RAVI: right", TRUE, UNDEF, NULL),
                     Message("l", "Ali", TRUE, UNDEF, NULL),
                     Message("k", " ravi", FALSE, "b.png", NULL) >>

\* Speeds: a message that omits typeSpeed, then typeSpeed 0, a negative one,
\* one slower than the provider's speed and, over a background, one faster.
SpeedScript == << Message("a", "Ali", FALSE, UNDEF, NULL),
                  [Message("b", "Ali", FALSE, UNDEF, NULL) EXCEPT !.typeSpeed = <<0>>],
                  [Message("c", "Eddy", FALSE, UNDEF, NULL) EXCEPT !.typeSpeed = <<-5>>],
                  [Message("d", "Eddy", FALSE, UNDEF, NULL) EXCEPT !.typeSpeed = <<50>>],
                  [Message("e", "Ali", FALSE, "b.png", NULL) EXCEPT !.typeSpeed = <<2>>] >>

\* Filters: a.png faded, a.png again with the same filter written blur first,
\* a filter without a background, a.png with no filter, and that once more.
Fade1BlurFirst == Filter(<<"blur", "fade">>, 1, 0)

FilterScript == << Message("a", "Ali", FALSE, "a.png", Fade1),
                   Message("b", "Ali", FALSE, "a.png", Fade1BlurFirst),
                   Message("c", "Eddy", FALSE, UNDEF, Blur2),
                   Message("d", "Eddy", FALSE, "a.png", NULL),
                   Message("e", "Ali", FALSE, "a.png", NULL) >>

\* What the host's onFinished callback does: nothing (<<>>), or call dialogue(script).
Reentries == {<<>>, HiYo}

propLeftCharacters == << Entry("Ali", UNDEF, "ali/default.png"), Entry("Ali", "angry", "ali/angry.png") >>
propRightCharacters == << Entry("Eddy", UNDEF, "eddy/default.png") >>

NoPins == [left |-> NULL, right |-> NULL, top |-> NULL]

\* no component has called a hook yet
NoHook == [within |-> FALSE, useDialogue |-> NULL, useDialogueContext |-> NULL]

\* the last event was not a click
NoPointer == [clientX |-> -1, innerWidth |-> 0, clientWidth |-> 0]

\* no side resolved yet
NoSides == [msg |-> NULL, starting |-> UNDEF, pin |-> UNDEF, final |-> UNDEF]

----------------------------------------------------------------------------
(* The state as one record, so that a handler is a composition of the        *)
(* functions it calls.  bgPending, finishCalls, cut, started and returned   *)
(* live only during one event.                                               *)

State ==
  [activeMessages |-> activeMessages, index |-> index, display |-> display,
   typing |-> typing, isActive |-> isActive, currentMessage |-> currentMessage,
   pinned |-> pinned, typingTimer |-> typingTimer, liveTimers |-> liveTimers,
   resolvePromise |-> resolvePromise,
   currentBg |-> currentBg, currentBgFilter |-> currentBgFilter, prevBg |-> prevBg,
   prevBgFilter |-> prevBgFilter, prevVisible |-> prevVisible,
   bgFadeTimeout |-> bgFadeTimeout, liveFades |-> liveFades,
   rafPending |-> rafPending,
   run |-> run, nPlays |-> nPlays, resolveCalls |-> resolveCalls,
   resolvedAt |-> resolvedAt, onFinishedCount |-> onFinishedCount,
   runsEnded |-> runsEnded, replaced |-> replaced,
   bgPending |-> <<>>,     \* side effects of the setCurrentBg updaters not yet run
   finishCalls |-> 0,      \* calls of finishDialogueImmediately in this event
   cut |-> FALSE,          \* finishDialogueImmediately cleared a live typing timer in this event
   started |-> FALSE,      \* startTypingMessage ran in this event
   returned |-> ""]        \* the promise returned by the last dialogue() call of this event

\* providerBgFilter ?? DEFAULT_BG_FILTER
providerFilterOrDefault == IF providerBgFilter # NULL THEN providerBgFilter ELSE DEFAULT_BG_FILTER

\* a background URL that is truthy (if (prevCur))
Truthy(url) == url # NULLSTR /\ url # UNDEF /\ url # ""

\* mutation of clearTypingTimer: the ref is reset but window.clearInterval is not called
clearTypingTimerRefOnly(s) == [s EXCEPT !.typingTimer = NULL]

clearTypingTimer(s) ==
  IF s.typingTimer # NULL
  THEN [s EXCEPT !.typingTimer = NULL, !.liveTimers = @ - 1]
  ELSE s

\* mutation of clearBgFadeTimeout: the ref is emptied, the timeout stays
clearBgFadeTimeoutRefOnly(s) == [s EXCEPT !.bgFadeTimeout = FALSE]

clearBgFadeTimeout(s) ==
  IF s.bgFadeTimeout
  THEN [s EXCEPT !.bgFadeTimeout = FALSE, !.liveFades = @ - 1]
  ELSE s

\* mutation of updateBackgroundForMessage: the outgoing background is never kept
updateBackgroundKeepingNoPrevious(s, newBg, filter, closureFilter) ==
  IF newBg = UNDEF THEN s
  ELSE LET targetFilter == IF filter # NULL THEN filter ELSE providerFilterOrDefault
           sameUrl == s.currentBg = newBg
           sameFilter == Stringify(closureFilter) = Stringify(targetFilter)
       IN  IF sameUrl /\ sameFilter THEN s
           ELSE [s EXCEPT !.currentBg = newBg,
                          !.bgPending = Append(@, [hasPrev |-> FALSE,
                                                   prevBg |-> s.currentBg,
                                                   prevBgFilter |-> closureFilter,
                                                   targetFilter |-> targetFilter])]

\* closureFilter is currentBgFilter of the render that created the callback.
\* The updater passed to setCurrentBg decides on the queued value of currentBg;
\* what it does besides returning the new value is recorded in bgPending and
\* takes place when React runs the updater, i.e. in the render (applyBgPending).
updateBackgroundForMessage(s, newBg, filter, closureFilter) ==
  IF newBg = UNDEF THEN s
  ELSE LET targetFilter == IF filter # NULL THEN filter ELSE providerFilterOrDefault
           prevCur == s.currentBg
           sameUrl == prevCur = newBg
           sameFilter == Stringify(closureFilter) = Stringify(targetFilter)
       IN  IF sameUrl /\ sameFilter THEN s
           ELSE [s EXCEPT !.currentBg = newBg,
                          !.bgPending = Append(@, [hasPrev |-> Truthy(prevCur),
                                                   prevBg |-> prevCur,
                                                   prevBgFilter |-> closureFilter,
                                                   targetFilter |-> targetFilter])]

RECURSIVE applyBgPending(_)
applyBgPending(s) ==
  IF s.bgPending = <<>> THEN s
  ELSE LET u == Head(s.bgPending)
           s1 == IF u.hasPrev
                 THEN [clearBgFadeTimeout(s) EXCEPT !.prevBg = u.prevBg,
                                                    !.prevBgFilter = u.prevBgFilter,
                                                    !.prevVisible = TRUE,
                                                    !.rafPending = TRUE,
                                                    !.bgFadeTimeout = TRUE,
                                                    !.liveFades = @ + 1]
                 ELSE s
       IN  applyBgPending([s1 EXCEPT !.currentBgFilter = u.targetFilter,
                                     !.bgPending = Tail(s.bgPending)])

\* mutation of startTypingMessage: a narrator message leaves the top pin
startTypingMessageKeepingTop(left, right, s, msgs, idx, closureFilter) ==
  LET msg == msgs[idx + 1]
      s1 == updateBackgroundForMessage(clearTypingTimer(s), msg.bgImage, msg.filter, closureFilter)
      side == startingSideIn(left, right, msg)
      s3 == IF side = "left" THEN [s1 EXCEPT !.pinned.left = NULL]
            ELSE IF side = "right" THEN [s1 EXCEPT !.pinned.right = NULL]
            ELSE s1
  IN  [s3 EXCEPT !.currentMessage = msg,
                 !.display = "",
                 !.typing = TRUE,
                 !.isActive = TRUE,
                 !.typingTimer = [full |-> msg.text, pos |-> 0,
                                  interval |-> Max(1, msg.resolvedTypeSpeed)],
                 !.liveTimers = @ + 1,
                 !.started = TRUE]

\* mutation of startTypingMessage: the text on display is not emptied
startTypingMessageKeepingDisplay(left, right, s, msgs, idx, closureFilter) ==
  LET msg == msgs[idx + 1]
      s1 == updateBackgroundForMessage(clearTypingTimer(s), msg.bgImage, msg.filter, closureFilter)
      s2 == IF isNarrator(msg.charecter) THEN [s1 EXCEPT !.pinned.top = NULL] ELSE s1
      side == startingSideIn(left, right, msg)
      s3 == IF side = "left" THEN [s2 EXCEPT !.pinned.left = NULL]
            ELSE IF side = "right" THEN [s2 EXCEPT !.pinned.right = NULL]
            ELSE s2
  IN  [s3 EXCEPT !.currentMessage = msg,
                 !.typing = TRUE,
                 !.isActive = TRUE,
                 !.typingTimer = [full |-> msg.text, pos |-> 0,
                                  interval |-> Max(1, msg.resolvedTypeSpeed)],
                 !.liveTimers = @ + 1,
                 !.started = TRUE]

\* startTypingMessage of the render whose directory is left, right
startTypingMessageIn(left, right, s, msgs, idx, closureFilter) ==
  LET msg == msgs[idx + 1]
      s1 == updateBackgroundForMessage(clearTypingTimer(s), msg.bgImage, msg.filter, closureFilter)
      s2 == IF isNarrator(msg.charecter) THEN [s1 EXCEPT !.pinned.top = NULL] ELSE s1
      side == startingSideIn(left, right, msg)
      s3 == IF side = "left" THEN [s2 EXCEPT !.pinned.left = NULL]
            ELSE IF side = "right" THEN [s2 EXCEPT !.pinned.right = NULL]
            ELSE s2
  IN  [s3 EXCEPT !.currentMessage = msg,
                 !.display = "",
                 !.typing = TRUE,
                 !.isActive = TRUE,
                 !.typingTimer = [full |-> msg.text, pos |-> 0,
                                  interval |-> Max(1, msg.resolvedTypeSpeed)],
                 !.liveTimers = @ + 1,
                 !.started = TRUE]

startTypingMessage(s, msgs, idx, closureFilter) ==
  startTypingMessageIn(leftChars, rightChars, s, msgs, idx, closureFilter)

pinIfNeeded(s, msg) ==
  IF msg = NULL THEN s
  ELSE IF ~msg.showTimes THEN s
  ELSE IF isNarrator(msg.charecter) THEN [s EXCEPT !.pinned.top = msg]
  ELSE IF pinSide(msg) = "left" THEN [s EXCEPT !.pinned.left = msg]
  ELSE IF pinSide(msg) = "right" THEN [s EXCEPT !.pinned.right = msg]
  ELSE s

\* mutation of dialogue: an empty script still resets the pins
dialogueClearingPins(s, messages) ==
  IF messages = <<>> THEN [s EXCEPT !.pinned = NoPins, !.returned = "resolved"]
  ELSE [s EXCEPT !.currentBg = IF providerBgImage # UNDEF THEN providerBgImage ELSE NULLSTR,
                 !.currentBgFilter = providerFilterOrDefault,
                 !.prevBg = NULLSTR,
                 !.prevBgFilter = NULL,
                 !.prevVisible = FALSE,
                 !.activeMessages = prepareMessages(messages),
                 !.index = 0,
                 !.isActive = TRUE,
                 !.pinned = NoPins,
                 !.resolvePromise = s.nPlays + 1,
                 !.nPlays = s.nPlays + 1,
                 !.run = s.nPlays + 1,
                 !.replaced = IF s.run # 0 THEN @ \cup {s.run} ELSE @,
                 !.returned = "pending"]

\* mutation of dialogue: setIndex(0) left out
dialogueKeepingIndex(s, messages) ==
  IF messages = <<>> THEN [s EXCEPT !.returned = "resolved"]
  ELSE [s EXCEPT !.currentBg = IF providerBgImage # UNDEF THEN providerBgImage ELSE NULLSTR,
                 !.currentBgFilter = providerFilterOrDefault,
                 !.prevBg = NULLSTR,
                 !.prevBgFilter = NULL,
                 !.prevVisible = FALSE,
                 !.activeMessages = prepareMessages(messages),
                 !.isActive = TRUE,
                 !.pinned = NoPins,
                 !.resolvePromise = s.nPlays + 1,
                 !.nPlays = s.nPlays + 1,
                 !.run = s.nPlays + 1,
                 !.replaced = IF s.run # 0 THEN @ \cup {s.run} ELSE @,
                 !.returned = "pending"]

\* messages = <<>> stands for an argument that is undefined, null or []: all
\* three take the early return.  returned tells whether the promise handed
\* back is Promise.resolve() or the new pending promise.
dialogue(s, messages) ==
  IF messages = <<>> THEN [s EXCEPT !.returned = "resolved"]
  ELSE [s EXCEPT !.currentBg = IF providerBgImage # UNDEF THEN providerBgImage ELSE NULLSTR,
                 !.currentBgFilter = providerFilterOrDefault,
                 !.prevBg = NULLSTR,
                 !.prevBgFilter = NULL,
                 !.prevVisible = FALSE,
                 !.activeMessages = prepareMessages(messages),
                 !.index = 0,
                 !.isActive = TRUE,
                 !.pinned = NoPins,
                 !.resolvePromise = s.nPlays + 1,
                 !.nPlays = s.nPlays + 1,
                 !.run = s.nPlays + 1,
                 !.replaced = IF s.run # 0 THEN @ \cup {s.run} ELSE @,
                 !.returned = "pending"]

\* onFinished of the host: re = <<>> does nothing, otherwise it calls dialogue(re)
\* (as long as the behaviour has dialogue() calls left).
onFinished(s, re) ==
  LET s1 == [s EXCEPT !.onFinishedCount = @ + 1]
  IN  IF re # <<>> /\ s1.nPlays < MaxPlays THEN dialogue(s1, re) ELSE s1

\* mutation of resetPlayback: setIsActive(false) left out
resetPlaybackStillActive(s) ==
  [s EXCEPT !.activeMessages = <<>>,
            !.index = 0,
            !.currentMessage = NULL,
            !.display = "",
            !.typing = FALSE,
            !.pinned = NoPins,
            !.currentBg = IF providerBgImage # UNDEF THEN providerBgImage ELSE NULLSTR,
            !.currentBgFilter = providerFilterOrDefault,
            !.prevBg = NULLSTR,
            !.prevBgFilter = NULL,
            !.prevVisible = FALSE]

\* mutation of resetPlayback: setDisplay("") and setTyping(false) left out
resetPlaybackKeepingDisplay(s) ==
  [s EXCEPT !.activeMessages = <<>>,
            !.index = 0,
            !.currentMessage = NULL,
            !.isActive = FALSE,
            !.pinned = NoPins,
            !.currentBg = IF providerBgImage # UNDEF THEN providerBgImage ELSE NULLSTR,
            !.currentBgFilter = providerFilterOrDefault,
            !.prevBg = NULLSTR,
            !.prevBgFilter = NULL,
            !.prevVisible = FALSE]

\* the state setters of finishDialogueImmediately
resetPlayback(s) ==
  [s EXCEPT !.activeMessages = <<>>,
            !.index = 0,
            !.currentMessage = NULL,
            !.display = "",
            !.typing = FALSE,
            !.isActive = FALSE,
            !.pinned = NoPins,
            !.currentBg = IF providerBgImage # UNDEF THEN providerBgImage ELSE NULLSTR,
            !.currentBgFilter = providerFilterOrDefault,
            !.prevBg = NULLSTR,
            !.prevBgFilter = NULL,
            !.prevVisible = FALSE]

finishDialogueImmediately(s, re) ==
  LET s1 == clearBgFadeTimeout(clearTypingTimer(s))
      s2 == [resetPlayback(s1) EXCEPT !.run = 0,
                                      !.runsEnded = IF s.run # 0 THEN @ + 1 ELSE @,
                                      !.finishCalls = @ + 1,
                                      !.cut = @ \/ s.typingTimer # NULL]
      s3 == onFinished(s2, re)
      p == s3.resolvePromise
  IN  IF p # 0
      THEN [s3 EXCEPT !.resolveCalls[p] = @ + 1,
                      !.resolvedAt[p] = s.run,
                      !.resolvePromise = 0]
      ELSE s3

----------------------------------------------------------------------------
(* Input handlers.  c is the state of the render whose closure the handler   *)
(* holds; re is what the host's onFinished does if it is called.             *)

\* mutation of revealFullText: clearTypingTimer() left out
\* what the render shows: the pinned and the current message of each slot
topPinned == pinned.top
leftPinned == pinned.left
rightPinned == pinned.right

topCurrent ==
  IF currentMessage # NULL
     /\ toLowerCase(parseCharacterKey(currentMessage.charecter).name) = "ravi"
  THEN currentMessage ELSE NULL

leftCurrent ==
  IF currentMessage # NULL /\ resolveSide(currentMessage) = "left"
     /\ toLowerCase(parseCharacterKey(currentMessage.charecter).name) # "ravi"
  THEN currentMessage ELSE NULL

rightCurrent ==
  IF currentMessage # NULL /\ resolveSide(currentMessage) = "right"
     /\ toLowerCase(parseCharacterKey(currentMessage.charecter).name) # "ravi"
  THEN currentMessage ELSE NULL

revealFullTextTimerLeft(c) ==
  [c EXCEPT !.display = c.currentMessage.text, !.typing = FALSE]

\* the branch "if (typing && currentMessage)" of onClick and onKey
revealFullText(c) ==
  [clearTypingTimer(c) EXCEPT !.display = c.currentMessage.text, !.typing = FALSE]

\* mutation of goForward: the end of the script does not finish the dialogue
goForwardNeverFinishing(c, re) ==
  LET nextIndex == c.index + 1
      s1 == pinIfNeeded(c, c.currentMessage)
  IN  IF c.activeMessages # <<>> /\ nextIndex < Len(c.activeMessages)
      THEN startTypingMessage([s1 EXCEPT !.index = nextIndex],
                              c.activeMessages, nextIndex, c.currentBgFilter)
      ELSE s1

\* pinIfNeeded(currentMessage), then the next message or the end of the script
goForward(c, re) ==
  LET nextIndex == c.index + 1
      s1 == pinIfNeeded(c, c.currentMessage)
  IN  IF c.activeMessages # <<>> /\ nextIndex < Len(c.activeMessages)
      THEN startTypingMessage([s1 EXCEPT !.index = nextIndex],
                              c.activeMessages, nextIndex, c.currentBgFilter)
      ELSE finishDialogueImmediately(s1, re)

\* mutation of goBack: two messages back
goBackTwo(c) ==
  LET prevIndex == Max(0, c.index - 2)
  IN  IF prevIndex # c.index /\ c.activeMessages # <<>> /\ prevIndex < Len(c.activeMessages)
      THEN startTypingMessage([c EXCEPT !.index = prevIndex],
                              c.activeMessages, prevIndex, c.currentBgFilter)
      ELSE c

\* mutation of goBack: the message being left is pinned as by a step forward
goBackPinning(c) ==
  LET prevIndex == Max(0, c.index - 1)
      s1 == pinIfNeeded(c, c.currentMessage)
  IN  IF prevIndex # c.index /\ c.activeMessages # <<>> /\ prevIndex < Len(c.activeMessages)
      THEN startTypingMessage([s1 EXCEPT !.index = prevIndex],
                              c.activeMessages, prevIndex, c.currentBgFilter)
      ELSE c

\* "go back one" of onClick (left half) and onKey (ArrowLeft)
goBack(c) ==
  LET prevIndex == Max(0, c.index - 1)
  IN  IF prevIndex # c.index /\ c.activeMessages # <<>> /\ prevIndex < Len(c.activeMessages)
      THEN startTypingMessage([c EXCEPT !.index = prevIndex],
                              c.activeMessages, prevIndex, c.currentBgFilter)
      ELSE c

\* window.innerWidth || document.documentElement.clientWidth || 0
viewportWidth(innerWidth, clientWidth) ==
  IF innerWidth # 0 THEN innerWidth ELSE IF clientWidth # 0 THEN clientWidth ELSE 0

\* mutation of isLeftHalf: the middle of the viewport counts as the left half
isLeftHalfInclusive(mx, w) == 2 * mx <= w

\* mx < w / 2
isLeftHalf(mx, w) == 2 * mx < w

\* half: the half of the viewport the click is in (mx < w / 2 is "left")
onClick(c, half, re) ==
  IF ~c.isActive \/ c.activeMessages = <<>> THEN c
  ELSE IF c.typing /\ c.currentMessage # NULL THEN revealFullText(c)
  ELSE IF activeRedo /\ half = "left" THEN goBack(c)
  ELSE goForward(c, re)

onKey(c, key, re) ==
  IF key = " " \/ key = "Enter"
  THEN IF ~c.isActive \/ c.activeMessages = <<>> THEN c
       ELSE IF c.typing /\ c.currentMessage # NULL THEN revealFullText(c)
       ELSE goForward(c, re)
  ELSE IF (key = "ArrowLeft" \/ key = "ArrowRight") /\ activeRedo
  THEN IF key = "ArrowLeft" THEN goBack(c) ELSE goForward(c, re)
  ELSE c

handleSkipClick(c, re) == finishDialogueImmediately(c, re)

\* The effect with dependencies [activeMessages, index, startTypingMessage].
\* c is the state of the previous commit, s the state being committed.  A new
\* array from dialogue() is a new run; startTypingMessage is a new function
\* when currentBgFilter is a new object.  The cleanup of the previous run of
\* the effect exists when that run saw a script.
typingEffect(c, s) ==
  IF s.run # c.run \/ s.index # c.index \/ s.currentBgFilter # c.currentBgFilter
  THEN LET s1 == IF c.activeMessages # <<>> THEN clearTypingTimer(s) ELSE s
       IN  IF s.activeMessages # <<>> /\ s.index >= 0 /\ s.index < Len(s.activeMessages)
           THEN startTypingMessage(s1, s.activeMessages, s.index, s.currentBgFilter)
           ELSE s1
  ELSE s

\* render after the handler h of an event that started in state c, then the effects
Rendered(c, h) == applyBgPending(typingEffect(c, applyBgPending(h)))

\* mutation of typingTick: two characters a tick
typingTickByTwo(c) ==
  LET pos == c.typingTimer.pos + 2
      s1 == [c EXCEPT !.display = slice(c.typingTimer.full, pos), !.typingTimer.pos = pos]
  IN  IF pos >= Len(c.typingTimer.full)
      THEN [clearTypingTimer(s1) EXCEPT !.typing = FALSE]
      ELSE s1

\* the callback of window.setInterval in startTypingMessage
typingTick(c) ==
  LET pos == c.typingTimer.pos + 1
      s1 == [c EXCEPT !.display = slice(c.typingTimer.full, pos), !.typingTimer.pos = pos]
  IN  IF pos >= Len(c.typingTimer.full)
      THEN [clearTypingTimer(s1) EXCEPT !.typing = FALSE]
      ELSE s1

\* the callback of window.setTimeout in updateBackgroundForMessage
bgFadeTimeoutFired(c) ==
  [c EXCEPT !.prevBg = NULLSTR, !.prevBgFilter = NULL, !.prevVisible = FALSE,
            !.bgFadeTimeout = FALSE, !.liveFades = @ - 1]

----------------------------------------------------------------------------
(* Actions *)

Unchanged == UNCHANGED << leftChars, rightChars, providerBgImage, providerBgFilter,
                          activeRedo, lookup, sides, hook, charectersPath,
                          manifestServer, loader >>

CommitEngine(s, name, arg) ==
  /\ activeMessages' = s.activeMessages
  /\ index' = s.index
  /\ display' = s.display
  /\ typing' = s.typing
  /\ isActive' = s.isActive
  /\ currentMessage' = s.currentMessage
  /\ pinned' = s.pinned
  /\ typingTimer' = s.typingTimer
  /\ liveTimers' = s.liveTimers
  /\ resolvePromise' = s.resolvePromise
  /\ currentBg' = s.currentBg
  /\ currentBgFilter' = s.currentBgFilter
  /\ prevBg' = s.prevBg
  /\ prevBgFilter' = s.prevBgFilter
  /\ prevVisible' = s.prevVisible
  /\ bgFadeTimeout' = s.bgFadeTimeout
  /\ liveFades' = s.liveFades
  /\ rafPending' = s.rafPending
  /\ run' = s.run
  /\ nPlays' = s.nPlays
  /\ resolveCalls' = s.resolveCalls
  /\ resolvedAt' = s.resolvedAt
  /\ onFinishedCount' = s.onFinishedCount
  /\ runsEnded' = s.runsEnded
  /\ replaced' = s.replaced
  /\ ev' = [name |-> name, arg |-> arg, finishCalls |-> s.finishCalls, cut |-> s.cut,
            started |-> s.started, seq |-> 1 - ev.seq]

Commit(s, name, arg) == CommitEngine(s, name, arg) /\ Unchanged /\ pointer' = NoPointer

\* re is explored only where onFinished is called and calls dialogue()
Reentered(s, re) == re = <<>> \/ s.nPlays > nPlays

\* the host calls dialogue(script) with a non-empty script
Play(script) ==
  /\ nPlays < MaxPlays
  /\ \E s \in {Rendered(State, dialogue(State, script))} : Commit(s, "play", s.returned)

\* the host calls dialogue() with no script or with an empty one
PlayEmpty ==
  \E s \in {Rendered(State, dialogue(State, <<>>))} : Commit(s, "playEmpty", s.returned)

\* a click anywhere in the window but on the skip button
Click(half, re) ==
  \E s \in {Rendered(State, onClick(State, half, re))} :
    Reentered(s, re) /\ Commit(s, "click", half)

\* a keydown; an ArrowRight while idle is explored MaxIdleFinish times
Key(key, re) ==
  /\ (key = "ArrowRight" /\ activeRedo /\ activeMessages = <<>>) => onFinishedCount < MaxIdleFinish
  /\ \E s \in {Rendered(State, onKey(State, key, re))} :
       Reentered(s, re) /\ Commit(s, "key", key)

\* A click on the skip button, which is there while isActive (canSkip is true).
\* The click reaches the capturing window listener first.  For a click of the
\* user React renders before the event reaches the button's handler, which
\* then runs only if the button is still mounted (flushed); for a click
\* dispatched by a script the two handlers run in one batch.
SkipClick(half, flushed, re) ==
  /\ isActive
  /\ \E afterWindow \in {onClick(State, half, re)} :
       \E mid \in {Rendered(State, afterWindow)} :
         \E s \in {IF flushed
                    THEN IF mid.isActive THEN Rendered(mid, handleSkipClick(mid, re)) ELSE mid
                    ELSE Rendered(State, handleSkipClick(afterWindow, re))} :
           Reentered(s, re) /\ Commit(s, "skip", half)

TypingTick ==
  /\ typingTimer # NULL
  /\ \E s \in {Rendered(State, typingTick(State))} : Commit(s, "tick", "")

FadeTimeout ==
  /\ liveFades > 0
  /\ \E s \in {Rendered(State, bgFadeTimeoutFired(State))} : Commit(s, "fade", "")

\* requestAnimationFrame(() => setPrevVisible(false))
AnimationFrame ==
  /\ rafPending
  /\ \E s \in {[State EXCEPT !.prevVisible = FALSE, !.rafPending = FALSE]} : Commit(s, "frame", "")

\* a click at clientX in a window of the given widths
ClickAt(clientX, innerWidth, clientWidth, re) ==
  LET half == IF isLeftHalf(clientX, viewportWidth(innerWidth, clientWidth))
              THEN "left" ELSE "right"
  IN  \E s \in {Rendered(State, onClick(State, half, re))} :
        /\ Reentered(s, re)
        /\ CommitEngine(s, "click", half)
        /\ Unchanged
        /\ pointer' = [clientX |-> clientX, innerWidth |-> innerWidth,
                       clientWidth |-> clientWidth]

Halves == {"left", "right"}
Keys == {" ", "Enter", "ArrowLeft", "ArrowRight"}

----------------------------------------------------------------------------
(* The playback handle.  A hook call either throws an Error or returns.      *)

Thrown(message) == [threw |-> TRUE, error |-> message, value |-> NULL]
Returned(value) == [threw |-> FALSE, error |-> "", value |-> value]

\* What useContext(DialogueContext) gives a component: the value of the
\* provider above it, or the default of createContext when there is none.
useContext(within) ==
  IF within THEN [dialogue |-> "dialogue", isActive |-> isActive] ELSE NULL

\* mutation of useDialogue: the check of ctx left out
useDialogueUnchecked(ctx) == Returned(ctx)

useDialogue(ctx) ==
  IF ctx = NULL THEN Thrown("useDialogue must be used within DialogueProvider")
  ELSE Returned(ctx)

useDialogueContext(ctx) ==
  IF ctx = NULL THEN Thrown("useDialogueContext must be used within DialogueProvider")
  ELSE Returned(ctx)

\* a component renders, within the provider or not, and calls both hooks
UseHook(within) ==
  /\ hook' = [within |-> within,
              useDialogue |-> useDialogue(useContext(within)),
              useDialogueContext |-> useDialogueContext(useContext(within))]
  /\ UNCHANGED << activeMessages, index, display, typing, isActive, currentMessage,
                  pinned, typingTimer, liveTimers, resolvePromise, currentBg,
                  currentBgFilter,
                  prevBg, prevBgFilter, prevVisible, bgFadeTimeout, liveFades, rafPending,
                  leftChars, rightChars, providerBgImage, providerBgFilter,
                  activeRedo, run, nPlays, resolveCalls, resolvedAt,
                  onFinishedCount, runsEnded, replaced, ev, lookup, sides,
                  pointer, charectersPath, manifestServer, loader >>

----------------------------------------------------------------------------
(* Manifest loader.  A JSON value is a record that carries its type; an      *)
(* object is its sequence of [key, value] entries in insertion order.        *)

JsonUndefined == [type |-> "undefined"]
JsonNull == [type |-> "null"]
JsonTrue == [type |-> "boolean"]
JsonNumber == [type |-> "number"]             \* a number other than 0
JsonString(str) == [type |-> "string", value |-> str]
JsonArray(items) == [type |-> "array", items |-> items]
JsonObject(entries) == [type |-> "object", entries |-> entries]
Property(key, value) == [key |-> key, value |-> value]

\* what fetch(url) and res.json() give
Rejected == [fetch |-> "rejected"]
Response(ok, parses, json) == [fetch |-> "fulfilled", ok |-> ok, parses |-> parses, json |-> json]

\* if (v): the values above that are truthy
JsTruthy(v) ==
  CASE v.type \in {"undefined", "null"} -> FALSE
    [] v.type = "string" -> v.value # ""
    [] OTHER -> TRUE

\* v[key] of a value that is not null or undefined
GetProperty(v, key) ==
  IF v.type = "object" /\ \E i \in DOMAIN v.entries : v.entries[i].key = key
  THEN v.entries[CHOOSE i \in DOMAIN v.entries : v.entries[i].key = key].value
  ELSE JsonUndefined

\* Object.entries(v)
ObjectEntries(v) ==
  CASE v.type = "object" -> v.entries
    [] v.type = "array" -> [i \in DOMAIN v.items |-> Property(ToString(i - 1), v.items[i])]
    [] v.type = "string" ->
         [i \in 1..Len(v.value) |-> Property(ToString(i - 1), JsonString(Char(v.value, i)))]
    [] OTHER -> <<>>

\* the elements of items in order of first occurrence
RECURSIVE Distinct(_, _)
Distinct(items, acc) ==
  IF items = <<>> THEN acc
  ELSE Distinct(Tail(items),
                IF \E i \in DOMAIN acc : acc[i] = Head(items) THEN acc
                ELSE Append(acc, Head(items)))

\* Array.from(new Set(files)): threw when files is not iterable
uniqueFilesOf(files) ==
  CASE files.type \in {"undefined", "null"} -> [threw |-> FALSE, items |-> <<>>]
    [] files.type = "array" -> [threw |-> FALSE, items |-> Distinct(files.items, <<>>)]
    [] files.type = "string" ->
         [threw |-> FALSE,
          items |-> Distinct([i \in 1..Len(files.value) |-> JsonString(Char(files.value, i))], <<>>)]
    [] OTHER -> [threw |-> TRUE, items |-> <<>>]

\* the index of the last "." of str, 0 if there is none
RECURSIVE lastIndexOfDot(_, _)
lastIndexOfDot(str, i) ==
  IF i = 0 THEN 0
  ELSE IF Char(str, i) = "." THEN i
  ELSE lastIndexOfDot(str, i - 1)

\* filename.replace(/\.[^.]+$/, "")
stripExtension(filename) ==
  LET dot == lastIndexOfDot(filename, Len(filename))
  IN  IF dot > 0 /\ dot < Len(filename) THEN SubSeq(filename, 1, dot - 1) ELSE filename

modeFromFilename(filename) ==
  LET name == stripExtension(filename)
  IN  IF toLowerCase(name) = "default" THEN UNDEF ELSE name

\* /^default\.[^.]+$/i.test(f)
isDefaultFile(f) ==
  /\ Len(f) > 8
  /\ toLowerCase(SubSeq(f, 1, 8)) = "default."
  /\ lastIndexOfDot(f, Len(f)) = 8

\* charectersPath.replace(/\/$/, "")
stripTrailingSlash(path) ==
  IF Len(path) > 0 /\ Char(path, Len(path)) = "/" THEN SubSeq(path, 1, Len(path) - 1) ELSE path

\* encodeURIComponent on letters, digits, ".", " " and "/"
RECURSIVE encodeURIComponent(_)
encodeURIComponent(str) ==
  IF str = "" THEN ""
  ELSE (CASE Char(str, 1) = " " -> "%20"
          [] Char(str, 1) = "/" -> "%2F"
          [] OTHER -> Char(str, 1))
       \o encodeURIComponent(SubSeq(str, 2, Len(str)))

assetSrc(basePath, charName, filename) ==
  basePath \o "/" \o encodeURIComponent(charName) \o "/" \o encodeURIComponent(filename)

\* uniqueFiles.forEach(...): one entry per file; threw at a file name that is no string
RECURSIVE fileEntries(_, _, _, _)
fileEntries(basePath, charName, uniqueFiles, acc) ==
  IF uniqueFiles = <<>> THEN [threw |-> FALSE, list |-> acc]
  ELSE IF Head(uniqueFiles).type # "string" THEN [threw |-> TRUE, list |-> acc]
  ELSE LET filename == Head(uniqueFiles).value
       IN  fileEntries(basePath, charName, Tail(uniqueFiles),
                       Append(acc, Entry(charName, modeFromFilename(filename),
                                         assetSrc(basePath, charName, filename))))

\* the callback of Object.entries(manifest.characters).forEach for one character
characterEntries(basePath, charName, files) ==
  LET unique == uniqueFilesOf(files)
      perFile == fileEntries(basePath, charName, unique.items, <<>>)
      hasDefault == \E i \in DOMAIN unique.items : isDefaultFile(unique.items[i].value)
  IN  IF unique.threw \/ perFile.threw THEN [threw |-> TRUE, list |-> <<>>]
      ELSE IF ~hasDefault /\ Len(unique.items) > 0
      THEN [threw |-> FALSE,
            list |-> Append(perFile.list,
                            Entry(charName, UNDEF, assetSrc(basePath, charName, unique.items[1].value)))]
      ELSE perFile

\* the lists left and right (they get the same entries) built from manifest.characters
RECURSIVE buildDirectory(_, _, _)
buildDirectory(basePath, entries, acc) ==
  IF entries = <<>> THEN [threw |-> FALSE, list |-> acc]
  ELSE LET one == characterEntries(basePath, Head(entries).key, Head(entries).value)
       IN  IF one.threw THEN [threw |-> TRUE, list |-> <<>>]
           ELSE buildDirectory(basePath, Tail(entries), acc \o one.list)

\* one iteration of "for (const url of tryUrls)": the manifest, or NULL to go on
manifestOf(res) ==
  IF res.fetch = "rejected" THEN NULL
  ELSE IF ~res.ok THEN NULL
  ELSE IF ~res.parses THEN NULL
  ELSE IF JsTruthy(res.json) /\ res.json.type \in {"object", "array"}
          /\ JsTruthy(GetProperty(res.json, "characters"))
  THEN res.json
  ELSE NULL

Some(value) == [value |-> value]

\* ?? of a runtime list and the list of the props
orProp(runtime, prop) == IF runtime # NULL THEN runtime.value ELSE prop

NotRun == "(effect not run)"

\* the loader before the effect of the first render
InitLoader ==
  [loaderInFlight |-> FALSE,
   tryLoad |-> NULL,                  \* the pending tryLoad(): its charectersPath and the url it awaits
   loads |-> 0,                       \* tryLoad() calls that have not settled
   runtimeLeftCharacters |-> NULL,
   runtimeRightCharacters |-> NULL,
   effectPath |-> NotRun,             \* charectersPath of the last run of the effect
   warnings |-> 0,                    \* console.warn calls
   uncaught |-> FALSE]                \* an exception left the loader

\* the effect with dependency [charectersPath], in a render whose charectersPath is path
loaderEffectFor(l, path) ==
  LET l1 == [l EXCEPT !.effectPath = path]
  IN  IF Falsy(path)
      THEN [l1 EXCEPT !.runtimeLeftCharacters = NULL, !.runtimeRightCharacters = NULL]
      ELSE IF l.loaderInFlight THEN l1
      ELSE [l1 EXCEPT !.loaderInFlight = TRUE,
                      !.loads = @ + 1,
                      !.tryLoad = [path |-> path, url |-> 1]]

loaderEffect(l) == loaderEffectFor(l, charectersPath)

\* "if (!manifest)" of tryLoad
loadFailed(l) ==
  [l EXCEPT !.warnings = @ + 1,
            !.loaderInFlight = FALSE,
            !.runtimeLeftCharacters = NULL,
            !.runtimeRightCharacters = NULL,
            !.loads = @ - 1,
            !.tryLoad = NULL]

\* the handler of tryLoad().catch
tryLoadCatch(l) ==
  [l EXCEPT !.loaderInFlight = FALSE,
            !.warnings = @ + 1,
            !.runtimeLeftCharacters = NULL,
            !.runtimeRightCharacters = NULL,
            !.loads = @ - 1,
            !.tryLoad = NULL]

\* tryLoad after its loop, with the manifest found
loadManifest(l, manifest) ==
  LET built == buildDirectory(stripTrailingSlash(l.tryLoad.path),
                              ObjectEntries(GetProperty(manifest, "characters")), <<>>)
  IN  IF built.threw THEN tryLoadCatch(l)
      ELSE [l EXCEPT !.runtimeLeftCharacters = Some(built.list),
                     !.runtimeRightCharacters = Some(built.list),
                     !.loaderInFlight = FALSE,
                     !.loads = @ - 1,
                     !.tryLoad = NULL]

\* tryLoad resumed by the response to the url it awaits
responseSettled(l) ==
  LET manifest == manifestOf(manifestServer[l.tryLoad.url])
  IN  IF manifest # NULL THEN loadManifest(l, manifest)
      ELSE IF l.tryLoad.url < 2 THEN [l EXCEPT !.tryLoad.url = 2]
      ELSE loadFailed(l)

\* no manifest is configured
LoaderIdle ==
  /\ charectersPath = UNDEF
  /\ manifestServer = << Rejected, Rejected >>
  /\ loader = InitLoader

InitEngine ==
  /\ activeMessages = <<>>
  /\ index = 0
  /\ display = ""
  /\ typing = FALSE
  /\ isActive = FALSE
  /\ currentMessage = NULL
  /\ pinned = NoPins
  /\ typingTimer = NULL
  /\ liveTimers = 0
  /\ resolvePromise = 0
  /\ currentBg = providerBgImage
  /\ currentBgFilter = providerFilterOrDefault
  /\ prevBg = NULLSTR
  /\ prevBgFilter = NULL
  /\ prevVisible = FALSE
  /\ bgFadeTimeout = FALSE
  /\ liveFades = 0
  /\ rafPending = FALSE
  /\ run = 0
  /\ nPlays = 0
  /\ resolveCalls = [p \in 1..MaxPlays |-> 0]
  /\ resolvedAt = [p \in 1..MaxPlays |-> -1]
  /\ onFinishedCount = 0
  /\ runsEnded = 0
  /\ replaced = {}
  /\ ev = [name |-> "init", arg |-> "", finishCalls |-> 0, cut |-> FALSE, started |-> FALSE,
           seq |-> 0]
  /\ lookup = [name |-> "", mode |-> UNDEF, result |-> [entry |-> NULL, foundOn |-> UNDEF]]
  /\ sides = NoSides
  /\ hook = NoHook
  /\ pointer = NoPointer

\* the provider props explored: activeRedo, bgImage, bgFilter
ProviderProps ==
  { [activeRedo |-> FALSE, bgImage |-> NULLSTR, bgFilter |-> NULL],
    [activeRedo |-> TRUE, bgImage |-> NULLSTR, bgFilter |-> NULL],
    [activeRedo |-> TRUE, bgImage |-> "a.png", bgFilter |-> Fade1] }

Init ==
  /\ \E props \in ProviderProps :
       /\ activeRedo = props.activeRedo
       /\ providerBgImage = props.bgImage
       /\ providerBgFilter = props.bgFilter
  /\ leftChars = propLeftCharacters
  /\ rightChars = propRightCharacters
  /\ LoaderIdle
  /\ InitEngine

Next ==
  \/ \E script \in Scripts : Play(script)
  \/ PlayEmpty
  \/ \E half \in Halves, re \in Reentries : Click(half, re)
  \/ \E key \in Keys, re \in Reentries : Key(key, re)
  \/ \E half \in Halves, flushed \in BOOLEAN, re \in Reentries : SkipClick(half, flushed, re)
  \/ TypingTick
  \/ FadeTimeout
  \/ AnimationFrame

Spec == Init /\ [][Next]_vars

----------------------------------------------------------------------------
(* Character resolution on its own: the directory is drawn from all lists of *)
(* at most MaxDirLen entries, and Lookup applies findCharacterEntryByName.   *)

DirEntries == { [name |-> "Eddy", mode |-> m] : m \in {UNDEF, "default", "angry", "happy"} }
                \cup { [name |-> "Ali", mode |-> UNDEF] }

\* the lists of at most MaxDirLen entries; the src of an entry tells its list and place
Directories(tag) ==
  { [i \in DOMAIN d |-> Entry(d[i].name, d[i].mode, tag \o ToString(i))] :
      d \in UNION { [1..n -> DirEntries] : n \in 0..MaxDirLen } }

LookupNames == {"Eddy", "Unknown"}
LookupModes == {UNDEF, "angry", "happy"}

InitDir ==
  /\ activeRedo = FALSE
  /\ providerBgImage = NULLSTR
  /\ providerBgFilter = NULL
  /\ leftChars \in Directories("L")
  /\ rightChars \in Directories("R")
  /\ LoaderIdle
  /\ InitEngine

Lookup(name, mode) ==
  /\ lookup' = [name |-> name, mode |-> mode, result |-> findCharacterEntryByName(name, mode)]
  /\ UNCHANGED << activeMessages, index, display, typing, isActive, currentMessage,
                  pinned, typingTimer, liveTimers, resolvePromise, currentBg,
                  currentBgFilter,
                  prevBg, prevBgFilter, prevVisible, bgFadeTimeout, liveFades, rafPending,
                  leftChars, rightChars, providerBgImage, providerBgFilter,
                  activeRedo, run, nPlays, resolveCalls, resolvedAt,
                  onFinishedCount, runsEnded, replaced, ev, sides, hook,
                  pointer, charectersPath, manifestServer, loader >>

NextDir == \E name \in LookupNames, mode \in LookupModes : Lookup(name, mode)

SpecDir == InitDir /\ [][NextDir]_vars

----------------------------------------------------------------------------
(* Side resolution on its own: the directory is drawn as in SpecDir, and     *)
(* Resolve resolves the side of one message at the three places of the       *)
(* provider that do so.                                                      *)

SpeakerKeys == {"Eddy", "Eddy:left", "Eddy: Right", "Ali:foo", "Zed", "Zed:right"}

SideMessages ==
  { prepareMessages(<< [Message("Hi", key, TRUE, UNDEF, NULL) EXCEPT !.forcedSide = forced] >>)[1] :
      key \in SpeakerKeys, forced \in {UNDEF, "left", "right"} }

Resolve(msg) ==
  /\ sides' = [msg |-> msg, starting |-> startingSide(msg), pin |-> pinSide(msg),
                final |-> resolveSide(msg)]
  /\ UNCHANGED << activeMessages, index, display, typing, isActive, currentMessage,
                  pinned, typingTimer, liveTimers, resolvePromise, currentBg,
                  currentBgFilter,
                  prevBg, prevBgFilter, prevVisible, bgFadeTimeout, liveFades, rafPending,
                  leftChars, rightChars, providerBgImage, providerBgFilter,
                  activeRedo, run, nPlays, resolveCalls, resolvedAt,
                  onFinishedCount, runsEnded, replaced, ev, lookup, hook,
                  pointer, charectersPath, manifestServer, loader >>

NextSide == \E msg \in SideMessages : Resolve(msg)

SpecSide == InitDir /\ [][NextSide]_vars

----------------------------------------------------------------------------
(* The manifest loader on its own: the provider is mounted with a            *)
(* charectersPath and the two urls answer in every way of Responses.  The    *)
(* engine stays idle, so the typing effect has no script to start when the   *)
(* directory changes.                                                        *)

EddyFiles == JsonArray(<< JsonString("default.png"), JsonString("angry.png"), JsonString("angry.png") >>)
AliFiles == JsonArray(<< JsonString("angry.png") >>)
RaviFiles == JsonArray(<< JsonString("sad.png"), JsonString("Default.JPG"), JsonString("sad.png") >>)
BareFiles == JsonArray(<< JsonString("default"), JsonString("angry.png") >>)

Manifest(characters) == JsonObject(<< Property("characters", characters) >>)
Characters(charName, files) == JsonObject(<< Property(charName, files) >>)

Responses ==
  { Rejected,
    Response(FALSE, TRUE, JsonNull),
    Response(TRUE, FALSE, JsonUndefined),
    Response(TRUE, TRUE, JsonNull),
    Response(TRUE, TRUE, JsonArray(<<>>)),
    Response(TRUE, TRUE, JsonObject(<<>>)),
    Response(TRUE, TRUE, Manifest(JsonNull)),
    Response(TRUE, TRUE, Manifest(JsonTrue)),
    Response(TRUE, TRUE, Manifest(JsonString("ab"))),
    Response(TRUE, TRUE, Manifest(JsonObject(<<>>))),
    Response(TRUE, TRUE, Manifest(Characters("Eddy", EddyFiles))),
    Response(TRUE, TRUE, Manifest(Characters("Ali", AliFiles))),
    Response(TRUE, TRUE, Manifest(JsonObject(<< Property("Ali", AliFiles), Property("Ravi", RaviFiles),
                                                Property("Eddy", JsonArray(<<>>)) >>))),
    Response(TRUE, TRUE, Manifest(Characters("Eddy", BareFiles))),
    Response(TRUE, TRUE, Manifest(Characters("Eddy", JsonNull))),
    Response(TRUE, TRUE, Manifest(Characters("Eddy", JsonNumber))),
    Response(TRUE, TRUE, Manifest(Characters("Eddy", JsonString("ab")))),
    Response(TRUE, TRUE, Manifest(Characters("Eddy", JsonArray(<< JsonNumber >>)))) }

CharectersPaths == {UNDEF, "chars", "chars/"}

InitManifest ==
  /\ activeRedo = FALSE
  /\ providerBgImage = NULLSTR
  /\ providerBgFilter = NULL
  /\ leftChars = propLeftCharacters
  /\ rightChars = propRightCharacters
  /\ charectersPath \in CharectersPaths
  /\ manifestServer \in [1..2 -> Responses]
  /\ loader = InitLoader
  /\ InitEngine

\* The typing effect when startTypingMessage is a new function because
\* leftChars or rightChars is a new array (its dependencies): the cleanup of
\* the previous run, then the current message is started again.
directoryEffect(c, changed, left, right) ==
  IF changed /\ c.activeMessages # <<>>
  THEN LET s1 == clearTypingTimer(c)
       IN  IF c.index >= 0 /\ c.index < Len(c.activeMessages)
           THEN applyBgPending(startTypingMessageIn(left, right, s1, c.activeMessages, c.index,
                                                    c.currentBgFilter))
           ELSE s1
  ELSE c

\* A step of the loader and the render that follows it.  The effects of that
\* render see the directory of that render.
LoaderCommitAt(l, name, path) ==
  /\ loader' = l
  /\ charectersPath' = path
  /\ leftChars' = orProp(l.runtimeLeftCharacters, propLeftCharacters)
  /\ rightChars' = orProp(l.runtimeRightCharacters, propRightCharacters)
  /\ UNCHANGED << providerBgImage, providerBgFilter, activeRedo, lookup, sides, hook, pointer,
                  manifestServer >>
  /\ \E s \in {directoryEffect(State, l.runtimeLeftCharacters # loader.runtimeLeftCharacters,
                                orProp(l.runtimeLeftCharacters, propLeftCharacters),
                                orProp(l.runtimeRightCharacters, propRightCharacters))} :
       CommitEngine(s, name, "")

LoaderCommit(l, name) == LoaderCommitAt(l, name, charectersPath)

LoaderEffect ==
  /\ loader.effectPath # charectersPath
  /\ \E l \in {loaderEffect(loader)} : LoaderCommit(l, "loaderEffect")

ResponseSettled ==
  /\ loader.tryLoad # NULL
  /\ \E l \in {responseSettled(loader)} : LoaderCommit(l, "response")

NextManifest == LoaderEffect \/ ResponseSettled

SpecManifest == InitManifest /\ [][NextManifest]_vars

----------------------------------------------------------------------------
(* Playback while the manifest loads: the provider is mounted with a         *)
(* charectersPath whose index.json lists Eddy, the effect of the first       *)
(* render starts the load, and the response arrives at any moment of the     *)
(* playback, or never.  The host's onFinished does nothing.                  *)

\* the provider props explored together with the load
LoadProps ==
  { [activeRedo |-> FALSE, bgImage |-> NULLSTR, bgFilter |-> NULL],
    [activeRedo |-> TRUE, bgImage |-> "a.png", bgFilter |-> Fade1] }

InitLoad ==
  /\ \E props \in LoadProps :
       /\ activeRedo = props.activeRedo
       /\ providerBgImage = props.bgImage
       /\ providerBgFilter = props.bgFilter
  /\ leftChars = propLeftCharacters
  /\ rightChars = propRightCharacters
  /\ charectersPath = "chars"
  /\ manifestServer = << Response(TRUE, TRUE, Manifest(Characters("Eddy", EddyFiles))), Rejected >>
  /\ loader = InitLoader
  /\ InitEngine

\* the effects of the first render have run
Mounted == loader.effectPath # NotRun

NextLoad ==
  \/ LoaderEffect
  \/ ResponseSettled
  \/ Mounted /\ \E script \in Scripts : Play(script)
  \/ Mounted /\ PlayEmpty
  \/ Mounted /\ \E half \in Halves : Click(half, <<>>)
  \/ Mounted /\ \E key \in Keys : Key(key, <<>>)
  \/ Mounted /\ \E half \in Halves, flushed \in BOOLEAN : SkipClick(half, flushed, <<>>)
  \/ Mounted /\ TypingTick
  \/ Mounted /\ FadeTimeout
  \/ Mounted /\ AnimationFrame

SpecLoad == InitLoad /\ [][NextLoad]_vars

----------------------------------------------------------------------------
(* The manifest loader while the host changes charectersPath: the provider   *)
(* is rendered again with another path, or with none, at any moment of a     *)
(* load.  Every path has the same files; the engine stays idle.              *)

MaxWarnings == 2

ChangingPaths == {UNDEF, "chars", "cast", "cast/"}

EddyResponse == Response(TRUE, TRUE, Manifest(Characters("Eddy", EddyFiles)))

InitPath ==
  /\ activeRedo = FALSE
  /\ providerBgImage = NULLSTR
  /\ providerBgFilter = NULL
  /\ leftChars = propLeftCharacters
  /\ rightChars = propRightCharacters
  /\ charectersPath \in ChangingPaths
  /\ manifestServer \in [1..2 -> {Rejected, EddyResponse}]
  /\ loader = InitLoader
  /\ InitEngine

\* the host renders the provider with another charectersPath; the effect,
\* whose dependency has changed, runs after the render
PathChange(path) ==
  /\ Mounted
  /\ path # charectersPath
  /\ loader.warnings < MaxWarnings
  /\ \E l \in {loaderEffectFor(loader, path)} : LoaderCommitAt(l, "pathChange", path)

NextPath ==
  \/ LoaderEffect
  \/ ResponseSettled
  \/ \E path \in ChangingPaths : PathChange(path)

SpecPath == InitPath /\ [][NextPath]_vars

----------------------------------------------------------------------------
(* Clicks by their coordinates: playback in which every click comes with its *)
(* clientX and with the widths the window reports.  The host's onFinished    *)
(* does nothing.                                                             *)

ClientXs == {1, 2}
\* innerWidth, clientWidth: 1 is the middle of a viewport of 2, left of the
\* middle of one of 3; a window that reports no innerWidth
WindowWidths == { << 2, 2 >>, << 3, 3 >>, << 0, 3 >> }

InitClick ==
  /\ \E props \in LoadProps :
       /\ activeRedo = props.activeRedo
       /\ providerBgImage = props.bgImage
       /\ providerBgFilter = props.bgFilter
  /\ leftChars = propLeftCharacters
  /\ rightChars = propRightCharacters
  /\ LoaderIdle
  /\ InitEngine

NextClick ==
  \/ \E script \in Scripts : Play(script)
  \/ PlayEmpty
  \/ \E clientX \in ClientXs, widths \in WindowWidths :
       ClickAt(clientX, widths[1], widths[2], <<>>)
  \/ \E key \in Keys : Key(key, <<>>)
  \/ \E half \in Halves, flushed \in BOOLEAN : SkipClick(half, flushed, <<>>)
  \/ TypingTick
  \/ FadeTimeout
  \/ AnimationFrame

SpecClick == InitClick /\ [][NextClick]_vars

----------------------------------------------------------------------------
(* The narrator: playback of scripts in which the narrator speaks, once      *)
(* twice in a row.  The host's onFinished does nothing.                      *)

NarratorScripts == {NarratorScript, PinScript}

NextNarrator ==
  \/ \E script \in NarratorScripts : Play(script)
  \/ PlayEmpty
  \/ \E half \in Halves : Click(half, <<>>)
  \/ \E key \in Keys : Key(key, <<>>)
  \/ \E half \in Halves, flushed \in BOOLEAN : SkipClick(half, flushed, <<>>)
  \/ TypingTick
  \/ FadeTimeout
  \/ AnimationFrame

SpecNarrator == InitClick /\ [][NextNarrator]_vars

----------------------------------------------------------------------------
(* Typing speeds: playback of a script whose messages give, or omit, their   *)
(* typeSpeed.  The host's onFinished does nothing.                           *)

SpeedScripts == {SpeedScript, HiYo}

NextSpeed ==
  \/ \E script \in SpeedScripts : Play(script)
  \/ PlayEmpty
  \/ \E half \in Halves : Click(half, <<>>)
  \/ \E key \in Keys : Key(key, <<>>)
  \/ \E half \in Halves, flushed \in BOOLEAN : SkipClick(half, flushed, <<>>)
  \/ TypingTick
  \/ FadeTimeout
  \/ AnimationFrame

SpecSpeed == InitClick /\ [][NextSpeed]_vars

----------------------------------------------------------------------------
(* Background filters: playback of a script whose messages give, repeat or   *)
(* omit a background and a filter.  The host's onFinished does nothing.      *)

FilterScripts == {FilterScript, HiYo}

NextFilter ==
  \/ \E script \in FilterScripts : Play(script)
  \/ PlayEmpty
  \/ \E half \in Halves : Click(half, <<>>)
  \/ \E key \in Keys : Key(key, <<>>)
  \/ \E half \in Halves, flushed \in BOOLEAN : SkipClick(half, flushed, <<>>)
  \/ TypingTick
  \/ FadeTimeout
  \/ AnimationFrame

SpecFilter == InitClick /\ [][NextFilter]_vars

----------------------------------------------------------------------------
(* The hooks: components call them while the provider of SpecManifest loads  *)
(* its manifest.                                                             *)

NextHook ==
  \/ NextManifest
  \/ \E within \in BOOLEAN : UseHook(within)

SpecHook == InitManifest /\ [][NextHook]_vars

----------------------------------------------------------------------------
(* Properties *)

Promises == 1..MaxPlays

\* C1: the promise of play(script) is resolved at most once, only at the moment
\* that same script finishes, and never while that script is still active.
C1_ResolvedOnceAtOwnFinish ==
  \A p \in Promises :
    /\ resolveCalls[p] <= 1
    /\ resolveCalls[p] > 0 => resolvedAt[p] = p
    /\ run = p => resolveCalls[p] = 0

\* C3: the number of onFinished invocations always equals the number of runs
\* that have ended (so onFinished is never invoked while no script is active).
C3_OnFinishedOncePerRun == onFinishedCount = runsEnded

\* C4: isActive is true exactly when a script is loaded: false before the first
\* play(), true from play() until the run finishes, false again afterwards.
C4_ActiveIffScript ==
  /\ isActive <=> activeMessages # <<>>
  /\ isActive <=> run # 0
  /\ nPlays = 0 => ~isActive

\* a run was played and has finished
C4_Witness == runsEnded > 0 /\ ~isActive /\ activeMessages = <<>> /\ ev.finishCalls > 0

\* C5: finish() is idempotent: a call of finish() made when the engine is
\* already Idle invokes no callback, resolves nothing and leaves the state as it is.
C5_FinishIdempotent ==
  [][(activeMessages = <<>> /\ ev'.finishCalls > 0)
       => /\ onFinishedCount' = onFinishedCount
          /\ resolveCalls' = resolveCalls
          /\ activeMessages' = <<>> /\ ~isActive']_vars

\* the entry the order (a) name+mode, (b) name with no mode or "default", (c) name
\* gives over the list all
ExpectedEntry(all, name, mode) ==
  LET Exact(c) == c.name = name /\ c.mode = mode
      Dflt(c) == c.name = name /\ (Falsy(c.mode) \/ c.mode = "default")
      ByName(c) == c.name = name
  IN  IF ~Falsy(mode) /\ \E i \in DOMAIN all : Exact(all[i])
      THEN all[FindIndex(all, Exact)]
      ELSE IF \E i \in DOMAIN all : Dflt(all[i]) THEN all[FindIndex(all, Dflt)]
      ELSE IF \E i \in DOMAIN all : ByName(all[i]) THEN all[FindIndex(all, ByName)]
      ELSE NULL

\* C8: resolution over the whole directory (left and right lists together)
\* returns the exact name+mode entry if any, else the default entry of that
\* name, else the first entry of that name, else no entry.
C8_ResolutionOrder ==
  lookup.result.entry = ExpectedEntry(leftChars \o rightChars, lookup.name, lookup.mode)

\* the events of ev: Space or Enter; an input that is an advance input (click,
\* Space, Enter); an input that maps to the advance command when paused
IsAdvanceKey(e) == e.name = "key" /\ e.arg \in {" ", "Enter"}
AdvanceInput(e) == IsAdvanceKey(e) \/ e.name = "click"
MapsToAdvance(e) == IsAdvanceKey(e) \/ (e.name = "click" /\ (~activeRedo \/ e.arg = "right"))

\* C6: an advance input while the current message is typing reveals its full
\* text, stops the timer and leaves position and pins unchanged; an advance
\* input in the paused state moves the position forward by exactly one.
C6_RevealThenAdvance ==
  [][/\ (isActive /\ typing /\ AdvanceInput(ev'))
          => /\ display' = currentMessage.text
             /\ ~typing'
             /\ typingTimer' = NULL
             /\ index' = index
             /\ pinned' = pinned
             /\ activeMessages' = activeMessages
     /\ (isActive /\ ~typing /\ MapsToAdvance(ev') /\ index + 1 < Len(activeMessages))
          => /\ index' = index + 1
             /\ activeMessages' = activeMessages]_vars

\* an advance input has just revealed the text of a message that was typing
C6_Witness ==
  /\ AdvanceInput(ev) /\ ~ev.started /\ ev.finishCalls = 0
  /\ isActive /\ ~typing /\ typingTimer = NULL
  /\ Len(currentMessage.text) = 2 /\ display = currentMessage.text

Slots == {"left", "right", "top"}

\* the slot a message is shown in
TargetSlot(msg) == IF isNarrator(msg.charecter) THEN "top" ELSE resolveSide(msg)

\* C7: within a run, a showTimes message that is advanced past is pinned in its
\* slot, a pin stays as long as no message targeting its slot begins typing,
\* and it is gone as soon as one does.
C7_PinUntilSameSlot ==
  [][(run' = run /\ run # 0) =>
       \A slot \in Slots :
         LET startsHere == ev'.started /\ TargetSlot(currentMessage') = slot
         IN  /\ (pinned[slot] # NULL /\ ~startsHere) => pinned'[slot] = pinned[slot]
             /\ startsHere => pinned'[slot] = NULL
             /\ (index' = index + 1 /\ currentMessage.showTimes
                   /\ TargetSlot(currentMessage) = slot /\ ~startsHere)
                  => pinned'[slot] = currentMessage]_vars

HiYoMessages == prepareMessages(HiYo)

\* C9: the run of ["Hi", "Yo"]: after play() position 0 and nothing typed; after
\* one tick "H"; after typing and one advance position 1 and nothing typed; after
\* typing and one more advance the promise is resolved and isActive is false.
C9_HiYoScenario ==
  [][/\ (ev'.name = "play" /\ activeMessages' = HiYoMessages)
          => index' = 0 /\ display' = "" /\ isActive'
     /\ (activeMessages = HiYoMessages /\ index = 0 /\ display = "" /\ ev'.name = "tick")
          => display' = "H" /\ index' = 0
     /\ (activeMessages = HiYoMessages /\ index = 0 /\ ~typing /\ MapsToAdvance(ev'))
          => index' = 1 /\ display' = "" /\ activeMessages' = HiYoMessages
     /\ (activeMessages = HiYoMessages /\ index = 1 /\ ~typing /\ MapsToAdvance(ev')
           /\ nPlays' = nPlays)
          => resolveCalls'[run] = 1 /\ ~isActive']_vars

\* "Hi" was typed and one advance has moved to "Yo"
C9_Witness ==
  /\ activeMessages = HiYoMessages /\ index = 1 /\ display = "" /\ typing
  /\ MapsToAdvance(ev) /\ ev.started

\* C10: advancing from a message with bgImage "a.png" to one with "b.png" makes
\* "a.png" the previous and "b.png" the current background with a fade timeout
\* pending, and the fade timeout clears the previous background.
C10_BackgroundCrossFade ==
  [][/\ (run' = run /\ run # 0 /\ index' = index + 1
           /\ activeMessages[index + 1].bgImage = "a.png"
           /\ activeMessages[index' + 1].bgImage = "b.png")
          => prevBg' = "a.png" /\ currentBg' = "b.png" /\ bgFadeTimeout'
     /\ ev'.name = "fade" => prevBg' = NULLSTR /\ ~bgFadeTimeout']_vars

\* the second message of BgScript has started
C10_Witness ==
  /\ activeMessages = prepareMessages(BgScript) /\ index = 1
  /\ prevBg = "a.png" /\ currentBg = "b.png" /\ currentBgFilter = Blur2

\* a response that is a failed load: network error, non-OK status, invalid JSON,
\* or a characters field that is missing or is not an object of arrays of file names
WellFormedCharacters(characters) ==
  /\ characters.type = "object"
  /\ \A i \in DOMAIN characters.entries :
       /\ characters.entries[i].value.type = "array"
       /\ \A j \in DOMAIN characters.entries[i].value.items :
            characters.entries[i].value.items[j].type = "string"

FailedLoad(res) ==
  \/ res.fetch = "rejected"
  \/ ~res.ok
  \/ ~res.parses
  \/ res.json.type # "object"
  \/ ~WellFormedCharacters(GetProperty(res.json, "characters"))

LoadSettled ==
  ~Falsy(charectersPath) /\ loader.effectPath = charectersPath /\ ~loader.loaderInFlight

\* C11: when the load of index.json and of manifest.json both fail, the
\* directory is the caller-supplied lists, a warning was logged and no
\* exception left the loader.
C11_FallbackOnFailedLoad ==
  (LoadSettled /\ FailedLoad(manifestServer[1]) /\ FailedLoad(manifestServer[2]))
    => /\ leftChars = propLeftCharacters
       /\ rightChars = propRightCharacters
       /\ loader.warnings > 0
       /\ ~loader.uncaught

\* the playback state, the pins, the background, the completion slot and the
\* counts of resolutions and of onFinished invocations
engine == << activeMessages, index, display, typing, isActive, currentMessage,
             pinned, typingTimer, liveTimers, resolvePromise, currentBg, currentBgFilter,
             prevBg, prevBgFilter, prevVisible, bgFadeTimeout, liveFades, rafPending,
             run, nPlays, resolveCalls, resolvedAt, onFinishedCount, runsEnded,
             replaced >>

\* C12: dialogue() with an empty or absent script returns an already resolved
\* promise and changes nothing, whether the engine is idle or active.
C12_EmptyScriptIsNoOp ==
  [][ev'.name = "playEmpty" => (ev'.arg = "resolved" /\ UNCHANGED engine)]_vars

\* an empty script was passed while a run with a pinned portrait and a live
\* typing timer was in progress
C12_Witness ==
  /\ ev.name = "playEmpty" /\ ev.arg = "resolved"
  /\ isActive /\ resolvePromise # 0 /\ pinned # NoPins /\ typingTimer # NULL

\* C13: while the engine is idle a click and a key press (Space, Enter,
\* ArrowLeft, ArrowRight) change no playback state, invoke no onFinished and
\* resolve no promise, whatever activeRedo is.
C13_IdleInputIgnored ==
  [][(~isActive /\ activeMessages = <<>> /\ ev'.name \in {"click", "key"})
       => UNCHANGED engine]_vars

\* dialogue(script) called by the host while a script is active: the new
\* script is loaded at position 0 with no pins, and the call itself neither
\* resolves a promise nor invokes onFinished
ReplacingPlay(script) ==
  (run # 0 /\ Play(script))
    => /\ activeMessages' = prepareMessages(script)
       /\ index' = 0
       /\ pinned' = NoPins
       /\ isActive'
       /\ run \in replaced'
       /\ resolveCalls' = resolveCalls
       /\ onFinishedCount' = onFinishedCount

\* C14: play(newScript) while a script is active replaces the run: the new
\* script is active at position 0 with no pins, and in every later state the
\* promise of the replaced run is unresolved.
C14_ReplacedRunNeverResolved ==
  /\ [][\A script \in Scripts : ReplacingPlay(script)]_vars
  /\ [](\A p \in replaced : resolveCalls[p] = 0)

\* once a run is replaced no later step calls the resolver of its promise
NoResolutionAfterReplace ==
  [][\A p \in replaced : resolveCalls'[p] = resolveCalls[p]]_vars

\* the name of the speaker is in the list
Listed(arr, name) == \E i \in DOMAIN arr : arr[i].name = name

\* the side of the directory list in which the speaker is found, the left list first
DirectorySide(name) ==
  IF Listed(leftChars, name) THEN "left"
  ELSE IF Listed(rightChars, name) THEN "right"
  ELSE UNDEF

FirstDefined(candidates) ==
  candidates[CHOOSE i \in DOMAIN candidates :
               candidates[i] # UNDEF /\ \A j \in 1..(i - 1) : candidates[j] = UNDEF]

\* the suffix of the key, lower case and without the blanks around it; UNDEF when the key has none
Suffix(charecter) ==
  LET parts == split(charecter)
  IN  IF Len(parts) > 1 THEN toLowerCase(trim(parts[2])) ELSE UNDEF

\* C15: the side of a message is the first that is defined of its forcedSide
\* field, the side named by the suffix of its speaker key, the side of the
\* directory list where the speaker is found, and "left"; the three places
\* that resolve a side (clearing the pin on start, pinning on advance,
\* choosing the slot) agree.  What a suffix that names no side means is the
\* matter of C17.
C15_SidePrecedence ==
  (sides # NoSides /\ Suffix(sides.msg.charecter) \in {UNDEF, "left", "right"}) =>
    LET name == trim(split(sides.msg.charecter)[1])
        expected == FirstDefined(<< sides.msg.forcedSide, Suffix(sides.msg.charecter),
                                    DirectorySide(name), "left" >>)
    IN  sides.starting = expected /\ sides.pin = expected /\ sides.final = expected

\* the three places agree on every message
C15_SameSideEverywhere ==
  sides # NoSides => (sides.pin = sides.starting /\ sides.final = sides.starting)

\* a key with a right suffix was resolved for a speaker listed on the left only
C15_Witness ==
  /\ sides # NoSides
  /\ sides.msg.charecter = "Eddy: Right" /\ sides.msg.forcedSide = UNDEF
  /\ Listed(leftChars, "Eddy") /\ ~Listed(rightChars, "Eddy")
  /\ sides.starting = "right" /\ sides.pin = "right" /\ sides.final = "right"

\* C17: in a key "name:side" only the suffix "right" forces a side; with any
\* other suffix, and with none, the side is that of the directory list where
\* the speaker is found, and "left" if the speaker is not found.
C17_OnlyRightSuffixForces ==
  (sides # NoSides /\ sides.msg.forcedSide = UNDEF) =>
    LET name == trim(split(sides.msg.charecter)[1])
        expected == FirstDefined(<< IF Suffix(sides.msg.charecter) = "right" THEN "right" ELSE UNDEF,
                                    DirectorySide(name), "left" >>)
    IN  sides.starting = expected /\ sides.pin = expected /\ sides.final = expected

\* C16: useDialogue and useDialogueContext called where no DialogueProvider
\* supplies a context value throw a usage error and return no handle.
C16_HookOutsideProviderThrows ==
  (hook # NoHook /\ ~hook.within) =>
    /\ hook.useDialogue.threw /\ hook.useDialogue.value = NULL
    /\ hook.useDialogue.error = "useDialogue must be used within DialogueProvider"
    /\ hook.useDialogueContext.threw /\ hook.useDialogueContext.value = NULL
    /\ hook.useDialogueContext.error = "useDialogueContext must be used within DialogueProvider"

\* both hooks were called outside a provider and threw
C16_Witness ==
  /\ hook # NoHook /\ ~hook.within
  /\ hook.useDialogue.threw /\ hook.useDialogueContext.threw

\* C18: at most one typing timer is live, the live timer is the one the
\* provider holds, a timer is live exactly when typing is true, and when the
\* engine is active and not typing the display is the full text of the
\* current message.
C18_OneTimerIffTyping ==
  /\ liveTimers <= 1
  /\ liveTimers = (IF typingTimer # NULL THEN 1 ELSE 0)
  /\ typing <=> liveTimers > 0
  /\ (isActive /\ ~typing) => (currentMessage # NULL /\ display = currentMessage.text)

\* a rewind started a message from the key handler and again from the effect
\* of the new index, while the previous message was still typing
C18_Witness ==
  /\ ev.name = "key" /\ ev.arg = "ArrowLeft" /\ ev.started
  /\ typing /\ liveTimers = 1 /\ display = ""

\* C19: once finishDialogueImmediately has ended a run, and until the next
\* dialogue() call, no typing timer is live, no typing tick fires, the display
\* is empty and typing is false; this holds when the finish cut a message that
\* was typing.
C19_NoTickAfterFinish ==
  /\ [](run = 0 => (typingTimer = NULL /\ liveTimers = 0 /\ display = "" /\ ~typing))
  /\ [][run = 0 => ev'.name # "tick"]_vars

\* a run was finished while its last message was typing
C19_Witness ==
  /\ ev.cut /\ ev.finishCalls = 1 /\ run = 0 /\ runsEnded > 0
  /\ typingTimer = NULL /\ display = "" /\ ~typing

\* C20: whenever a script is active, 0 <= index < length of the script.
C20_IndexInRange ==
  activeMessages # <<>> => (0 <= index /\ index < Len(activeMessages))

\* a shorter script has replaced a run, and the new run has been advanced to
\* its last message
C20_Witness ==
  /\ replaced # {} /\ activeMessages = HiYoMessages /\ index = Len(activeMessages) - 1
  /\ AdvanceInput(ev) /\ ev.started

\* the inputs that are commands to go forward, and to go back, one message
AdvanceCommand(e) == MapsToAdvance(e) \/ (activeRedo /\ e.name = "key" /\ e.arg = "ArrowRight")
RewindCommand(e) ==
  activeRedo /\ ((e.name = "click" /\ e.arg = "left") \/ (e.name = "key" /\ e.arg = "ArrowLeft"))

\* C21: while a script stays active its position changes only by an advance
\* command, by exactly +1, or by a rewind command, by exactly -1; a typing
\* tick, an input that skips the typing, a fade timeout, an animation frame,
\* a manifest load and a change of background leave it alone.
C21_PositionStepsByOne ==
  [][(run # 0 /\ run' = run /\ index' # index)
       => \/ AdvanceCommand(ev') /\ index' = index + 1 /\ ~(typing /\ AdvanceInput(ev'))
          \/ RewindCommand(ev') /\ index' = index - 1]_vars

\* a rewind has taken the position of a script of three or more messages from 2 to 1
C21_Witness ==
  /\ RewindCommand(ev) /\ ev.started /\ run # 0 /\ index = 1 /\ Len(activeMessages) >= 3

\* C22: whenever the position of an active script changes, by an advance or
\* by a rewind, the resulting state is typing, nothing of the text is typed
\* (the live timer stands at 0 of the text of the message at the new position)
\* and the text on display is empty.
C22_PositionChangeRestartsTyping ==
  [][(run # 0 /\ run' = run /\ index' # index)
       => /\ typing' /\ display' = ""
          /\ currentMessage' = activeMessages'[index' + 1]
          /\ typingTimer' # NULL /\ liveTimers' = 1
          /\ typingTimer'.pos = 0 /\ typingTimer'.full = currentMessage'.text]_vars

\* an advance from a fully displayed message has started the next message
C22_Witness ==
  /\ AdvanceCommand(ev) /\ ev.started /\ run # 0 /\ index = 1
  /\ typing /\ display = "" /\ currentMessage.text # ""

\* the inputs that can mean "go back": a click in the left half, ArrowLeft
RewindInput(e) ==
  (e.name = "click" /\ e.arg = "left") \/ (e.name = "key" /\ e.arg = "ArrowLeft")

\* C23: the position of an active script goes down only with activeRedo and
\* only by a rewind input; with activeRedo a rewind input in a paused state at
\* position p > 0 starts typing message p - 1 and pins nothing (every slot
\* keeps its pin or loses it), and at position 0 it changes nothing.
C23_RewindClampedAndPinless ==
  [][/\ (run # 0 /\ run' = run /\ index' < index) => (activeRedo /\ RewindInput(ev'))
     /\ (activeRedo /\ RewindInput(ev') /\ run # 0 /\ ~typing)
          => IF index > 0
             THEN /\ index' = index - 1 /\ run' = run /\ activeMessages' = activeMessages
                  /\ typing' /\ display' = "" /\ currentMessage' = activeMessages[index]
                  /\ \A slot \in Slots : pinned'[slot] \in {pinned[slot], NULL}
             ELSE UNCHANGED engine]_vars

\* a rewind has left a message with showTimes, which is in no slot
C23_Witness ==
  /\ activeRedo /\ RewindInput(ev) /\ ev.started /\ run # 0
  /\ index + 2 <= Len(activeMessages) /\ activeMessages[index + 2].showTimes
  /\ \A slot \in Slots : pinned[slot] # activeMessages[index + 2]

\* a rewind input at position 0 of a paused script
C23_WitnessClamped ==
  /\ activeRedo /\ RewindInput(ev) /\ ~ev.started /\ run # 0 /\ index = 0 /\ ~typing

\* the step goes forward: to the next message, or off the end of the script
Advances ==
  \/ run' = run /\ index' = index + 1 /\ index' < Len(activeMessages)
  \/ index = Len(activeMessages) - 1 /\ run' = 0 /\ runsEnded' = runsEnded + 1

\* the step goes back: to the message before, or nowhere from the first one
Rewinds == run' = run /\ index' = Max(0, index - 1) /\ runsEnded' = runsEnded

\* the width of the viewport a click came in
ViewportWidth(p) == IF p.innerWidth # 0 THEN p.innerWidth ELSE p.clientWidth

\* C24: in a paused state, with activeRedo a click at x < viewportWidth / 2
\* rewinds and a click at x >= viewportWidth / 2 advances; without activeRedo
\* every click, Space and Enter advances wherever the click is.
C24_ClickClassifiedByHalf ==
  [][(run # 0 /\ isActive /\ ~typing)
       => /\ (activeRedo /\ ev'.name = "click")
               => IF 2 * pointer'.clientX < ViewportWidth(pointer') THEN Rewinds ELSE Advances
          /\ (~activeRedo /\ (ev'.name = "click" \/ IsAdvanceKey(ev'))) => Advances]_vars

\* with activeRedo a click in the very middle of the viewport has advanced
C24_Witness ==
  /\ activeRedo /\ ev.name = "click" /\ ev.started /\ run # 0 /\ index = 1
  /\ pointer.clientX = 1 /\ pointer.innerWidth = 2

\* without activeRedo a click in the left half has advanced
C24_WitnessNoRedo ==
  /\ ~activeRedo /\ ev.name = "click" /\ ev.started /\ run # 0 /\ index = 1
  /\ pointer.clientX = 1 /\ pointer.innerWidth = 3

\* the playback state s as the tuple engine
EngineOf(s) ==
  << s.activeMessages, s.index, s.display, s.typing, s.isActive, s.currentMessage,
     s.pinned, s.typingTimer, s.liveTimers, s.resolvePromise, s.currentBg, s.currentBgFilter,
     s.prevBg, s.prevBgFilter, s.prevVisible, s.bgFadeTimeout, s.liveFades, s.rafPending,
     s.run, s.nPlays, s.resolveCalls, s.resolvedAt, s.onFinishedCount, s.runsEnded,
     s.replaced >>

\* the step leaves the engine as a click in the given half would, for an
\* onFinished callback that behaves one way for both
AsClick(half) ==
  \E re \in Reentries : engine' = EngineOf(Rendered(State, onClick(State, half, re)))

\* C25: with activeRedo, in every state of the engine ArrowLeft gives the
\* state and the callbacks of a click in the left half and ArrowRight those
\* of a click in the right half; without activeRedo the arrow keys change
\* nothing.
C25_ArrowKeysAsClicks ==
  [][/\ (activeRedo /\ ev'.name = "key" /\ ev'.arg = "ArrowLeft") => AsClick("left")
     /\ (activeRedo /\ ev'.name = "key" /\ ev'.arg = "ArrowRight") => AsClick("right")
     /\ (~activeRedo /\ ev'.name = "key" /\ ev'.arg \in {"ArrowLeft", "ArrowRight"})
          => UNCHANGED engine]_vars

\* the same, of the paused states only
C25_ArrowKeysAsClicksWhenPaused ==
  [][(run # 0 /\ isActive /\ ~typing)
      => /\ (activeRedo /\ ev'.name = "key" /\ ev'.arg = "ArrowLeft") => AsClick("left")
         /\ (activeRedo /\ ev'.name = "key" /\ ev'.arg = "ArrowRight") => AsClick("right")]_vars

\* the same, of the typing states only
C25_ArrowKeysAsClicksWhenTyping ==
  [][(run # 0 /\ isActive /\ typing)
      => /\ (activeRedo /\ ev'.name = "key" /\ ev'.arg = "ArrowLeft") => AsClick("left")
         /\ (activeRedo /\ ev'.name = "key" /\ ev'.arg = "ArrowRight") => AsClick("right")]_vars

\* without activeRedo the arrow keys change nothing
C25_ArrowKeysInertWithoutRedo ==
  [][(~activeRedo /\ ev'.name = "key" /\ ev'.arg \in {"ArrowLeft", "ArrowRight"})
          => UNCHANGED engine]_vars

\* C26: at most one narrator box is visible: the top pin is never set while
\* the current message is a narrator message, and a narrator message is never
\* pinned into the left or the right slot (nor another message into the top).
C26_OneNarratorBox ==
  /\ ~(topPinned # NULL /\ topCurrent # NULL)
  /\ (currentMessage # NULL /\ isNarrator(currentMessage.charecter)) => pinned.top = NULL
  /\ leftPinned # NULL => ~isNarrator(leftPinned.charecter)
  /\ rightPinned # NULL => ~isNarrator(rightPinned.charecter)
  /\ topPinned # NULL => isNarrator(topPinned.charecter)

\* the narrator's line with a side suffix is being typed after the narrator's
\* line with showTimes was advanced past
C26_Witness ==
  /\ activeMessages # <<>> /\ index = 1 /\ AdvanceCommand(ev) /\ ev.started
  /\ activeMessages[1].showTimes /\ isNarrator(activeMessages[1].charecter)
  /\ currentMessage.charecter = "RAVI: right" /\ topCurrent = currentMessage
  /\ pinned = NoPins

\* the narrator's line is pinned at the top while a side speaker is current
C26_WitnessPinned ==
  /\ topPinned # NULL /\ topPinned.charecter = "RAVI: right" /\ leftCurrent # NULL

\* C27: starting a message clears only the pin of the slot the message
\* targets: every other slot keeps its pin, or takes the message just advanced
\* past; a narrator message targets the top slot, so the left and the right
\* pin survive its start.
C27_StartClearsOnlyTargetSlot ==
  [][(run' = run /\ run # 0 /\ ev'.started)
       => \A slot \in Slots \ {TargetSlot(currentMessage')} :
            \/ pinned'[slot] = pinned[slot]
            \/ /\ index' = index + 1 /\ currentMessage.showTimes
               /\ TargetSlot(currentMessage) = slot /\ pinned'[slot] = currentMessage]_vars

\* the same, of the messages that are not narrator messages
C27_SideStartClearsOnlyItsSide ==
  [][(run' = run /\ run # 0 /\ ev'.started /\ ~isNarrator(currentMessage'.charecter))
       => \A slot \in Slots \ {TargetSlot(currentMessage')} :
            \/ pinned'[slot] = pinned[slot]
            \/ /\ index' = index + 1 /\ currentMessage.showTimes
               /\ TargetSlot(currentMessage) = slot /\ pinned'[slot] = currentMessage]_vars

\* providerBgImage ?? null
ProviderDefaultBg == IF providerBgImage # UNDEF THEN providerBgImage ELSE NULLSTR

\* what C28 asks of the state after dialogue()
PlayReset ==
  /\ isActive' /\ run' = nPlays' /\ index' = 0
  /\ typing' /\ display' = "" /\ currentMessage' = activeMessages'[1]
  /\ typingTimer' # NULL /\ typingTimer'.pos = 0 /\ liveTimers' = 1
  /\ pinned' = NoPins
  /\ IF activeMessages'[1].bgImage = UNDEF
     THEN /\ currentBg' = ProviderDefaultBg
          /\ currentBgFilter' = providerFilterOrDefault
          /\ prevBg' = NULLSTR /\ prevBgFilter' = NULL /\ ~prevVisible'
     ELSE /\ currentBg' = activeMessages'[1].bgImage
          /\ prevBg' \in {NULLSTR, ProviderDefaultBg}

\* C28: after dialogue() with a non-empty script, from any state, message 0
\* is being typed at position 0 with nothing typed and nothing pinned, and
\* the background is the provider's default with no previous image; where
\* message 0 names a background of its own, that one is applied to the reset
\* background, so that the previous image is none or the provider's default.
C28_PlayResets ==
  [][nPlays' > nPlays
       => PlayReset]_vars

\* the same, of the dialogue() calls the host makes outside onFinished
C28_PlayResetsOutsideOnFinished ==
  [][(nPlays' > nPlays /\ ev'.name = "play") => PlayReset]_vars

\* the same, of all dialogue() calls but those made during a skip click
C28_PlayResetsButInSkip ==
  [][(nPlays' > nPlays /\ ev'.name # "skip") => PlayReset]_vars

\* C29: whenever no script is active the state is empty: position 0, nothing
\* typed, not typing, no current message, no pins, the provider's default
\* background with no previous image, no typing timer and no fade timeout
\* live, and no completion pending in the engine.
C29_IdleIsEmpty ==
  activeMessages = <<>>
    => /\ ~isActive /\ run = 0 /\ index = 0
       /\ display = "" /\ ~typing /\ currentMessage = NULL
       /\ pinned = NoPins
       /\ currentBg = ProviderDefaultBg /\ currentBgFilter = providerFilterOrDefault
       /\ prevBg = NULLSTR /\ prevBgFilter = NULL /\ ~prevVisible
       /\ typingTimer = NULL /\ liveTimers = 0
       /\ ~bgFadeTimeout
       /\ resolvePromise = 0

\* the number of characters of the current message on display
typedLength == Len(display)

\* C30: a tick comes only while typing, shows one character more of the text
\* of the current message and never more than the text; the tick that shows
\* the last character stops the timer and leaves the engine paused, and so
\* does the one tick of a message whose text is empty.
C30_TickTypesOneCharacter ==
  /\ [](currentMessage # NULL => typedLength <= Len(currentMessage.text))
  /\ [][ev'.name = "tick"
          => /\ typing /\ isActive /\ typedLength < Max(1, Len(currentMessage.text))
             /\ currentMessage' = currentMessage /\ index' = index /\ run' = run
             /\ display' = SubSeq(currentMessage.text, 1, Len(display'))
             /\ Len(display') = IF currentMessage.text = "" THEN 0 ELSE typedLength + 1
             /\ IF Len(display') = Len(currentMessage.text)
                THEN ~typing' /\ typingTimer' = NULL /\ liveTimers' = 0 /\ isActive'
                ELSE typing' /\ typingTimer' # NULL /\ liveTimers' = 1]_vars

\* the second tick of a text of two characters has paused the engine
C30_Witness ==
  /\ ev.name = "tick" /\ ~typing /\ isActive /\ typingTimer = NULL
  /\ typedLength = 2 /\ display = currentMessage.text

\* the one tick of a message with empty text has paused the engine
C30_WitnessEmptyText ==
  /\ ev.name = "tick" /\ ~typing /\ isActive /\ typingTimer = NULL
  /\ currentMessage.text = "" /\ display = ""

\* C31: the interval of the typing timer of a message is max(1, typeSpeed)
\* when the message gives a typeSpeed, 0 and negative ones included (which
\* give 1), and max(1, speed) of the provider, 35, only when it gives none.
C31_TickInterval ==
  typingTimer # NULL
    => /\ typingTimer.full = currentMessage.text
       /\ typingTimer.interval =
            IF currentMessage.typeSpeed = <<>> THEN 35
            ELSE IF currentMessage.typeSpeed[1] < 1 THEN 1 ELSE currentMessage.typeSpeed[1]

\* the message with typeSpeed 0 is being typed, a tick every 1
C31_Witness ==
  /\ typingTimer # NULL /\ typing /\ currentMessage.typeSpeed = <<0>>
  /\ typingTimer.interval = 1

\* the message with typeSpeed -5 is being typed, a tick every 1
C31_WitnessNegative ==
  /\ typingTimer # NULL /\ typing /\ currentMessage.typeSpeed = <<-5>>
  /\ typingTimer.interval = 1

\* C32: at most one fade timeout is live, the one the ref holds, and whenever
\* a previous background is set a fade timeout is live, which clears it when
\* it fires.
C32_OneFadeTimeout ==
  /\ [](/\ liveFades <= 1
        /\ liveFades = (IF bgFadeTimeout THEN 1 ELSE 0)
        /\ prevBg # NULLSTR => bgFadeTimeout)
  /\ [][ev'.name = "fade" => (prevBg' = NULLSTR /\ ~prevVisible' /\ liveFades' = 0)]_vars

\* a rewind has cross-faded from b.png back to a.png: one fade timeout is live
C32_Witness ==
  /\ ev.started /\ bgFadeTimeout /\ liveFades = 1 /\ prevBg = "b.png" /\ currentBg = "a.png"

\* the filter a message asks for: its own, or else the provider's
EffectiveFilter(msg) == IF msg.filter # NULL THEN msg.filter ELSE providerFilterOrDefault

\* two filters are the same filter: the same properties with the same values
SameFilter(f, g) ==
  /\ {f.keys[i] : i \in DOMAIN f.keys} = {g.keys[i] : i \in DOMAIN g.keys}
  /\ f.fade = g.fade /\ f.blur = g.blur

\* the background state
background == << currentBg, currentBgFilter, prevBg, prevBgFilter, prevVisible >>

\* an advance or a rewind starts a message within the run
StartsWithinRun ==
  run # 0 /\ run' = run /\ ev'.started /\ ev'.name \in {"click", "key"}

\* C33: starting a message that gives no bgImage, or whose bgImage and
\* effective filter are the current background's URL and filter, leaves the
\* background state as it is and starts no fade timeout.
C33_SameBackgroundIsNoOp ==
  [][(/\ StartsWithinRun
      /\ \/ currentMessage'.bgImage = UNDEF
         \/ /\ currentMessage'.bgImage = currentBg
            /\ SameFilter(EffectiveFilter(currentMessage'), currentBgFilter))
       => /\ UNCHANGED background
          /\ UNCHANGED << bgFadeTimeout, liveFades, rafPending >>]_vars

\* the same, of a filter that is also written as the current one is
C33_IdenticalBackgroundIsNoOp ==
  [][(/\ StartsWithinRun
      /\ \/ currentMessage'.bgImage = UNDEF
         \/ /\ currentMessage'.bgImage = currentBg
            /\ EffectiveFilter(currentMessage') = currentBgFilter)
       => /\ UNCHANGED background
          /\ UNCHANGED << bgFadeTimeout, liveFades, rafPending >>]_vars

\* the manifest the loader found: that of index.json, else that of manifest.json
ServedManifest ==
  IF manifestOf(manifestServer[1]) # NULL THEN manifestOf(manifestServer[1])
  ELSE manifestOf(manifestServer[2])

\* a manifest as documented: each character has an array of file names
WellFormedManifest(manifest) ==
  LET characters == GetProperty(manifest, "characters")
  IN  /\ characters.type = "object"
      /\ \A i \in DOMAIN characters.entries :
            /\ characters.entries[i].value.type = "array"
            /\ \A j \in DOMAIN characters.entries[i].value.items :
                  characters.entries[i].value.items[j].type = "string"

\* the file name without its extension, in lower case
LowerStem(filename) == toLowerCase(stripExtension(filename))

\* the entries of one character: one per distinct file name, and one more
\* without mode for the first file when no file has the stem "default"
ExpectedEntries(basePath, charName, files) ==
  LET names == Distinct([i \in DOMAIN files |-> files[i].value], <<>>)
      perFile == [i \in DOMAIN names |->
                    Entry(charName,
                          IF LowerStem(names[i]) = "default" THEN UNDEF
                          ELSE stripExtension(names[i]),
                          assetSrc(basePath, charName, names[i]))]
  IN  IF names # <<>> /\ \A i \in DOMAIN names : LowerStem(names[i]) # "default"
      THEN Append(perFile, Entry(charName, UNDEF, assetSrc(basePath, charName, names[1])))
      ELSE perFile

RECURSIVE ExpectedDirectory(_, _)
ExpectedDirectory(basePath, entries) ==
  IF entries = <<>> THEN <<>>
  ELSE ExpectedEntries(basePath, Head(entries).key, Head(entries).value.items)
         \o ExpectedDirectory(basePath, Tail(entries))

\* some character of the manifest has a file whose whole name is "default"
HasBareDefault(manifest) ==
  \E i \in DOMAIN GetProperty(manifest, "characters").entries :
    \E j \in DOMAIN GetProperty(manifest, "characters").entries[i].value.items :
      toLowerCase(GetProperty(manifest, "characters").entries[i].value.items[j].value) = "default"

\* C35: from a loaded manifest the loader makes, for each character, one
\* entry per distinct file name, its mode the file stem or none for the stem
\* "default", and one more entry without mode for the first file when the
\* character has files but none with the stem "default"; the left and the
\* right list are the same.
C35_DirectoryOfManifest ==
  (/\ loader.runtimeLeftCharacters # NULL
   /\ WellFormedManifest(ServedManifest))
    => /\ loader.runtimeRightCharacters = loader.runtimeLeftCharacters
       /\ loader.runtimeLeftCharacters.value
            = ExpectedDirectory(stripTrailingSlash(charectersPath),
                                GetProperty(ServedManifest, "characters").entries)

\* the same, of manifests without a file named just "default"
C35_DirectoryOfManifestWithExtensions ==
  (/\ loader.runtimeLeftCharacters # NULL
   /\ WellFormedManifest(ServedManifest)
   /\ ~HasBareDefault(ServedManifest))
    => /\ loader.runtimeRightCharacters = loader.runtimeLeftCharacters
       /\ loader.runtimeLeftCharacters.value
            = ExpectedDirectory(stripTrailingSlash(charectersPath),
                                GetProperty(ServedManifest, "characters").entries)

\* an event has started a message and the dialogue is still running
StartsMessage ==
  ev'.started /\ isActive' /\ ev'.name \in {"play", "click", "key"}

\* the provider's bgImage is the background shown once the event is over
ProviderBgActive ==
  providerBgImage \notin {NULLSTR, UNDEF} /\ currentBg' = providerBgImage

\* C34: once a message has started, the current filter is the message's
\* filter, or the provider's bgFilter (else the default) when the message
\* gives none, whenever the message sets bgImage and also when it sets no
\* bgImage while the provider's bgImage is the active background.
C34_FilterApplied ==
  [][(/\ StartsMessage
      /\ currentMessage'.bgImage # UNDEF \/ ProviderBgActive)
       => SameFilter(currentBgFilter', EffectiveFilter(currentMessage'))]_vars

\* the same, of the messages that set bgImage
C34_FilterAppliedWithBgImage ==
  [][(StartsMessage /\ currentMessage'.bgImage # UNDEF)
       => SameFilter(currentBgFilter', EffectiveFilter(currentMessage'))]_vars

\* no load is pending and the effect has run for the charectersPath of the last render
LoaderSettled ==
  Mounted /\ loader.tryLoad = NULL /\ loader.effectPath = charectersPath

\* the directory of a path: the entries of the manifest found under it, or
\* the lists of the props when there is no path or no manifest
DirectoryOf(path, prop) ==
  IF Falsy(path) \/ ServedManifest = NULL THEN prop
  ELSE ExpectedDirectory(stripTrailingSlash(path), GetProperty(ServedManifest, "characters").entries)

\* C39: at most one manifest load is in flight, and once no load is pending
\* the directory is that of the latest charectersPath: the manifest under
\* that path, or the lists of the props when the path was cleared.
C39_DirectoryOfLatestPath ==
  /\ loader.loads <= 1
  /\ loader.loads = (IF loader.tryLoad # NULL THEN 1 ELSE 0)
  /\ LoaderSettled
       => /\ leftChars = DirectoryOf(charectersPath, propLeftCharacters)
          /\ rightChars = DirectoryOf(charectersPath, propRightCharacters)

\* at most one manifest load is in flight
C39_OneLoadInFlight ==
  /\ loader.loads <= 1
  /\ loader.loads = (IF loader.tryLoad # NULL THEN 1 ELSE 0)
  /\ loader.loaderInFlight <=> loader.tryLoad # NULL

\* paused at the end of a message: all of its text is shown, nothing is typing
PausedAtEnd ==
  /\ isActive /\ run # 0 /\ currentMessage # NULL
  /\ ~typing /\ typingTimer = NULL /\ display = currentMessage.text

\* the event of the step is none of the commands: time passing, the fade
\* timeout, the animation frame, the loader
NoCommand == ev'.name \in {"tick", "fade", "frame", "loaderEffect", "response"}

\* C36: while paused at the end of a message, an event that is no advance,
\* rewind, finish or play leaves position, typed length, isTyping and the
\* displayed text as they are.
C36_PausedWaits ==
  [][(PausedAtEnd /\ NoCommand)
       => /\ UNCHANGED << index, display, typing, typingTimer, currentMessage >>
          /\ typedLength' = typedLength]_vars

\* the same, of every event but the response that brings the manifest
C36_PausedWaitsButForManifest ==
  [][(PausedAtEnd /\ NoCommand /\ leftChars' = leftChars /\ rightChars' = rightChars)
       => /\ UNCHANGED << index, display, typing, typingTimer, currentMessage >>
          /\ typedLength' = typedLength]_vars

\* the skip button was clicked while a script was active
SkipsActive == isActive /\ activeMessages # <<>> /\ ev'.name = "skip"

\* one onFinished call and one resolution, of the promise of the run, and
\* the engine is idle afterwards
FinishedOnce ==
  /\ onFinishedCount' = onFinishedCount + 1
  /\ resolveCalls' = [resolveCalls EXCEPT ![nPlays] = @ + 1]
  /\ ~isActive' /\ activeMessages' = <<>> /\ run' = 0 /\ index' = 0
  /\ display' = "" /\ ~typing' /\ typingTimer' = NULL /\ currentMessage' = NULL
  /\ pinned' = NoPins

\* C37: a click on the skip button in any active state ends the run with
\* exactly one onFinished call and exactly one resolution of its promise and
\* leaves the engine idle, although the window's capturing click handler gets
\* the same click first.
C37_SkipFinishesOnce ==
  [][SkipsActive => FinishedOnce]_vars

\* the same, of the skip clicks the window's handler does not take for the
\* advance past the last message
C37_SkipFinishesOnceBeforeEnd ==
  [][(/\ SkipsActive
      /\ ~PausedAtEnd \/ index # Len(activeMessages) - 1 \/ (activeRedo /\ ev'.arg = "left"))
       => FinishedOnce]_vars

\* the message pinned in slot is a message of the active script before the position
PinnedFromBefore(slot) ==
  \E i \in 1..Len(activeMessages) : i - 1 < index /\ activeMessages[i] = pinned[slot]

\* C38: every pinned message, left, right or top, is a message of the active
\* script at an index strictly smaller than the position.
C38_PinsAreEarlierMessages ==
  \A slot \in Slots : pinned[slot] # NULL => PinnedFromBefore(slot)

----------------------------------------------------------------------------
(* Liveness: the interval fires as long as it is live, and the user keeps     *)
(* giving advance input (Space, Enter, or a click that maps to advance).      *)
(* ev records the event of the last step and ev.seq alternates, so every step *)
(* changes ev and a step is a TypingTick step exactly when it is a TickDue     *)
(* step, an AdvanceStep step exactly when it is an AdvanceDue step             *)
(* (TickDueIsTypingTick, AdvanceDueIsAdvanceStep).  The fairness conditions   *)
(* are stated on TickDue and AdvanceDue, whose enabling conditions are the    *)
(* guards of TypingTick and AdvanceStep.                                       *)

AdvanceStep ==
  \/ \E key \in {" ", "Enter"}, re \in Reentries : Key(key, re)
  \/ \E re \in Reentries : Click("right", re)
  \/ ~activeRedo /\ \E re \in Reentries : Click("left", re)

EventRecords(names, args) ==
  [name : names, arg : args, finishCalls : 0..2, cut : BOOLEAN, started : BOOLEAN,
   seq : {0, 1}]

TickDue == typingTimer # NULL /\ ev' \in EventRecords({"tick"}, {""})

AdvanceDue ==
  ev' \in {e \in EventRecords({"key", "click"}, Keys \cup Halves) : MapsToAdvance(e)}

TickDueIsTypingTick == [][TickDue <=> TypingTick]_vars

AdvanceDueIsAdvanceStep == [][AdvanceDue <=> AdvanceStep]_vars

LiveSpec == Init /\ [][Next]_vars /\ WF_ev(TickDue) /\ WF_ev(AdvanceDue)

FadeDue == liveFades > 0 /\ ev' \in EventRecords({"fade"}, {""})

FadeDueIsFadeTimeout == [][FadeDue <=> FadeTimeout]_vars

\* the fade timeout fires as long as it is live
LiveFadeSpec == Init /\ [][Next]_vars /\ WF_ev(FadeDue)

\* a previous background is always discarded in the end
C32_PreviousEventuallyDiscarded == (prevBg # NULLSTR) ~> (prevBg = NULLSTR)

\* typing of a message with empty text comes to an end
C30_EmptyTextPauses ==
  (typing /\ currentMessage.text = "") ~> ~(typing /\ currentMessage.text = "")

\* a rewind command has just gone back one message
Rewound ==
  /\ ev.started
  /\ (ev.name = "click" /\ ev.arg = "left") \/ (ev.name = "key" /\ ev.arg = "ArrowLeft")

\* C2 as stated: unless play() is called again, a run leads to Idle with its promise resolved.
C2_EventuallyResolved ==
  \A p \in Promises :
    (run = p) ~> ((run = 0 /\ ~isActive /\ resolveCalls[p] > 0) \/ nPlays > p)

\* C2: unless play() is called again or the user rewinds, a run leads to Idle
\* with its promise resolved.
C2_EventuallyResolvedUnlessRewound ==
  \A p \in Promises :
    (run = p) ~> ((run = 0 /\ ~isActive /\ resolveCalls[p] > 0) \/ nPlays > p \/ Rewound)

\* a run that was not replaced has ended and its promise is resolved
C2_Witness ==
  /\ run = 0 /\ ~isActive /\ nPlays = 1 /\ resolveCalls[1] = 1 /\ resolvedAt[1] = 1
  /\ MapsToAdvance(ev) /\ ev.finishCalls = 1

====
